---- MODULE Spec2Model ----
(***************************************************************************)
(* Model of the evaluation job queue (core/services/job-queue.ts), the     *)
(* evaluation pipeline (core/services/evaluation-pipeline.ts), the job     *)
(* table of the database service (infrastructure/database/index.ts) and    *)
(* the /evaluate route (start.ts).                                         *)
(*                                                                         *)
(* An action is one synchronous segment of the JavaScript code: it starts  *)
(* where a handler is entered or an await resumes and runs to the next     *)
(* await.  The job ids of the queue (crypto.randomUUID) are 1..MaxJobs,    *)
(* the ids of database rows (uuid_generate_v4) are the MaxDb numbers after. *)
(***************************************************************************)
EXTENDS Integers, Sequences, FiniteSets, TLC

\* ---------------------------------------------------------------- bounds
MaxJobs == 4
MaxDb == 1
MaxClock == 1
MaxAppJobs == 2
MaxAttempts == 3
MaxTextLen == 2
MaxPassages == 2
MaxMinutes == 2
MaxHalfHours == 3
MaxEvaluations == 4
MaxHours == 1

QueueIds == 1..MaxJobs
DbIds == (MaxJobs + 1)..(MaxJobs + MaxDb)

NoValue == "undefined"
NoCall == [kind |-> "none"]
\* The result column when it is NULL, and a result object whose content is
\* left open.
NoResult == [kind |-> "null"]
PartialOrFinal == [kind |-> "EvaluationResult"]
\* A query result whose documents field is missing.
NoResults == [hasDocuments |-> FALSE, documents |-> << >>]
NotInitialized == "Evaluation pipeline not initialized"
\* The milliseconds of an hour (60 * 60 * 1000).
HourMs == 3600000
PipelineErrors == {"CV evaluation failed", "Project evaluation failed"}

VARIABLES
    jobs,          \* JobQueue.jobs: Map<string, Job>
    isProcessing,  \* JobQueue.isProcessing
    pipelineSet,   \* JobQueue.evaluationPipeline is defined
    loops,         \* suspended startProcessing() invocations, by the job whose addJob started them
    pipes,         \* processEvaluation() invocations in progress, by caller (loop or route request)
    dbJobs,        \* rows of the jobs table
    now,           \* Date.now(), in clock ticks
    nextId,        \* number of ids handed out by addJob so far
    runs,          \* history: processEvaluation invocations per job id: 0, 1, or 2 for "more than once"
    outcome,       \* history: how the last finished execution of a job ended
    llmPc,         \* callLLM: where the invocation stands
    maxRetries,    \* callLLM: parameter maxRetries
    attempt,       \* callLLM: loop variable attempt
    llmResult,     \* callLLM: returned LLMResponse
    delay,         \* callLLM: delay of the timer last set, in ms
    calls,         \* history: generateContent calls made
    waits,         \* history: timers waited for
    last,          \* history: what the last generateContent call produced
    blanks,        \* history: calls that returned an empty or whitespace-only text
    onlyTransient, \* history: every call so far ended in a transient fault
    ctxPc,         \* retrieveRelevantContext: where the invocation stands
    documentId,    \* retrieveRelevantContext: parameter documentId
    documentType,  \* retrieveRelevantContext: parameter documentType
    results,       \* retrieveRelevantContext: local results
    refResults,    \* retrieveRelevantContext: local refResults
    ctxReturn,     \* retrieveRelevantContext: the string returned, in pieces
    queries,       \* history: the queries sent to collections, in order
    ctxThrew,      \* history: a call to the vector database rejected
    pePc,          \* processEvaluation: where the invocation stands
    peJob,         \* processEvaluation: parameter jobId
    peCaller,      \* who called processEvaluation: the queue's loop or the /evaluate route
    stage,         \* the stage in progress: cv, project or summary
    ctxNo,         \* evaluateCV / evaluateProjectReport: number of the retrieval in progress
    cvEvaluation,  \* processEvaluation: local cvEvaluation
    projectEvaluation, \* processEvaluation: local projectEvaluation
    peError,       \* the message of the error caught by processEvaluation
    effects,       \* history: the writes, retrievals and callLLM invocations made, in order
    parsed,        \* history: per stage, how the parsing of the response went
    scorePc,       \* scoring: where the validation and the scoring of a response stand
    parsedEvaluation, \* evaluateCV / evaluateProjectReport: local evaluation, the parsed JSON
    weightedScores, \* processEvaluation: locals cvScore and projectScore
    finalScore,    \* processEvaluation: result.finalScore
    listed,        \* the filter and the Job[] that getAllJobs / getJobsByStatus returned last
    store,         \* SimpleRateLimiter.store of each limiter: key -> {count, resetTime}
    clock,         \* Date.now() of the limiters, in minutes
    reply,         \* the last request to the router: status and what isAllowed returned
    requests,      \* the requests to POST /evaluate so far: key, time, status
    removed        \* what deleteJob or cleanupOldJobs returned last

qvars == <<jobs, isProcessing, pipelineSet, loops, pipes, dbJobs, now, nextId, runs, outcome>>
lvars == <<llmPc, maxRetries, attempt, llmResult, delay, calls, waits, last, blanks, onlyTransient>>
cvars == <<ctxPc, documentId, documentType, results, refResults, ctxReturn, queries, ctxThrew>>
pvars == <<pePc, peJob, peCaller, stage, ctxNo, cvEvaluation, projectEvaluation, peError, effects, parsed>>
svars == <<scorePc, parsedEvaluation, weightedScores, finalScore>>
avars == <<listed>>
rvars == <<store, clock, reply, requests>>
dvars == <<removed>>
vars == <<qvars, lvars, cvars, pvars, svars, avars, rvars, dvars>>

\* What the steps of one component leave alone.
exceptQueue == <<lvars, cvars, pvars, svars, avars, rvars, dvars>>
exceptLLM == <<qvars, cvars, pvars, svars, avars, rvars, dvars>>
exceptCtx == <<qvars, lvars, pvars, svars, avars, rvars, dvars>>

Min(a, b) == IF a < b THEN a ELSE b
Max(a, b) == IF a > b THEN a ELSE b

\* NaN where a whole number is expected.
NaN == 0 - 1

\* ------------------------------------------------------- number arithmetic

\* The scores and weights are JavaScript numbers: IEEE-754 binary64, every
\* operation rounded to the nearest value with 53 significant bits, ties to
\* even.  A number that is not negative is kept exactly, in fixed point: a
\* whole part and four digits to the base 2^15 after the point, so the unit
\* is 2^-60.  This holds every binary64 value from 2^-8 up to 2^15, which
\* covers the weights, the scores and their hundredfold.  NaN is the result
\* of every operation on something that is not a number.
Base == 32768
Zero == [nan |-> FALSE, digits |-> <<0, 0, 0, 0, 0>>]
NotANumber == [nan |-> TRUE, digits |-> <<0, 0, 0, 0, 0>>]
FromNat(n) == [nan |-> FALSE, digits |-> <<n, 0, 0, 0, 0>>]

\* x > 0
Positive(x) == ~x.nan /\ x.digits # Zero.digits

\* The number of bits of a natural number.
RECURSIVE BitLength(_)
BitLength(n) == IF n = 0 THEN 0 ELSE 1 + BitLength(n \div 2)

\* The digits of a + b, of n * a and of a - b (for a >= b), from the last
\* digit to the first; the first digit takes what is carried.
RECURSIVE AddDigits(_, _, _)
AddDigits(a, b, carry) ==
    LET k == Len(a)
        s == a[k] + b[k] + carry
    IN IF k = 1 THEN <<s>>
       ELSE Append(AddDigits(SubSeq(a, 1, k - 1), SubSeq(b, 1, k - 1), s \div Base), s % Base)
RECURSIVE TimesDigits(_, _, _)
TimesDigits(n, a, carry) ==
    LET k == Len(a)
        p == n * a[k] + carry
    IN IF k = 1 THEN <<p>>
       ELSE Append(TimesDigits(n, SubSeq(a, 1, k - 1), p \div Base), p % Base)
RECURSIVE MinusDigits(_, _, _)
MinusDigits(a, b, borrow) ==
    LET k == Len(a)
        d == a[k] - b[k] - borrow
    IN IF k = 1 THEN <<d>>
       ELSE IF d < 0
            THEN Append(MinusDigits(SubSeq(a, 1, k - 1), SubSeq(b, 1, k - 1), 1), d + Base)
            ELSE Append(MinusDigits(SubSeq(a, 1, k - 1), SubSeq(b, 1, k - 1), 0), d)

\* a <= b, for equally many digits.
RECURSIVE LessEq(_, _)
LessEq(a, b) ==
    IF a = << >> THEN TRUE
    ELSE IF Head(a) # Head(b) THEN Head(a) < Head(b)
    ELSE LessEq(Tail(a), Tail(b))

\* The number of significant bits of some digits.
RECURSIVE SignificantBits(_)
SignificantBits(a) ==
    IF a = << >> THEN 0
    ELSE IF Head(a) # 0 THEN BitLength(Head(a)) + 15 * (Len(a) - 1)
    ELSE SignificantBits(Tail(a))

\* Rounding to 53 significant bits, to the nearest and on a tie to the even
\* neighbour; `more` says that the exact value is larger than the digits
\* tell, by less than a unit.  The bits that go are among the last 30.
Round53(a, more) ==
    LET drop == SignificantBits(a) - 53 IN
    IF drop <= 0 THEN [nan |-> FALSE, digits |-> a]
    ELSE LET low == a[4] * Base + a[5]
             rest == low % (2 ^ drop)
             half == 2 ^ (drop - 1)
             odd == (low \div (2 ^ drop)) % 2 = 1
             up == rest > half \/ (rest = half /\ (more \/ odd))
             kept == low - rest + (IF up THEN 2 ^ drop ELSE 0)
         IN [nan |-> FALSE,
             digits |-> AddDigits(<<a[1], a[2], a[3], 0, 0>>,
                                  <<0, 0, kept \div (Base * Base), (kept \div Base) % Base,
                                    kept % Base>>, 0)]

\* x + y and n * x, for a whole number n, as the engine computes them.
Plus(x, y) ==
    IF x.nan \/ y.nan THEN NotANumber ELSE Round53(AddDigits(x.digits, y.digits, 0), FALSE)
Times(n, x) ==
    IF x.nan THEN NotANumber ELSE Round53(TimesDigits(n, x.digits, 0), FALSE)

\* The division of the digits d by a whole number n below the base, with r
\* the remainder so far and q the digits of the quotient.
RECURSIVE ShortDivision(_, _, _, _)
ShortDivision(d, n, r, q) ==
    IF d = << >> THEN [quotient |-> q, remainder |-> r # 0]
    ELSE LET r2 == r * Base + Head(d) IN
         ShortDivision(Tail(d), n, r2 % n, Append(q, r2 \div n))

\* The largest digit g with g * v <= r, found bit by bit.
RECURSIVE QuotientDigit(_, _, _, _)
QuotientDigit(r, v, g, bit) ==
    IF bit = 0 THEN g
    ELSE IF LessEq(TimesDigits(g + bit, v, 0), r)
         THEN QuotientDigit(r, v, g + bit, bit \div 2)
         ELSE QuotientDigit(r, v, g, bit \div 2)

\* The division of the digits d by the digits v, one digit of d at a time,
\* with r the remainder so far (as many digits as v has) and q the digits of
\* the quotient.
RECURSIVE LongDivision(_, _, _, _)
LongDivision(d, v, r, q) ==
    IF d = << >> THEN [quotient |-> q, remainder |-> \E i \in 1..Len(r) : r[i] # 0]
    ELSE LET r2 == <<r[1] * Base + r[2]>> \o SubSeq(r, 3, Len(r)) \o <<Head(d)>>
             g == QuotientDigit(r2, v, 0, Base \div 2)
         IN LongDivision(Tail(d), v, MinusDigits(r2, TimesDigits(g, v, 0), 0), Append(q, g))

\* x / y as the engine computes it, for y > 0: the quotient in units of
\* 2^-60, rounded.
Divide(x, y) ==
    IF x.nan \/ y.nan \/ ~Positive(y) THEN NotANumber
    ELSE IF SubSeq(y.digits, 2, 5) = <<0, 0, 0, 0>> /\ y.digits[1] < Base
    THEN LET d == ShortDivision(x.digits, y.digits[1], 0, << >>) IN
         Round53(d.quotient, d.remainder)
    ELSE LET d == LongDivision(x.digits \o <<0, 0, 0, 0>>, y.digits, Zero.digits, << >>)
             q == d.quotient
             whole == (((q[1] * Base + q[2]) * Base + q[3]) * Base + q[4]) * Base + q[5]
         IN Round53(<<whole, q[6], q[7], q[8], q[9]>>, d.remainder)

\* The number a decimal literal n/d denotes.
Double(n, d) == Divide(FromNat(n), FromNat(d))

\* Math.round(x) for x that is not negative: the nearest whole number, a
\* half goes up.
MathRound(x) ==
    IF x.nan THEN NaN
    ELSE x.digits[1] + (IF 2 * x.digits[2] >= Base THEN 1 ELSE 0)

\* Math.round(x * 100) / 100, named by its hundredths.
RoundedToHundredths(x) == MathRound(Times(100, x))

\* x / 2
Halve(x) == Divide(x, FromNat(2))


Remove(f, k) == [x \in DOMAIN f \ {k} |-> f[x]]

\* ------------------------------------------------------------- job queue

\* The jobs with the status, in the insertion order of the Map.
getJobsByStatusUnsorted(js, status) ==
    LET ids == {i \in DOMAIN js : js[i].status = status} IN
    [n \in 1..Cardinality(ids) |-> CHOOSE i \in ids : Cardinality({k \in ids : k < i}) = n - 1]

\* Array.sort((a, b) => b.createdAt - a.createdAt): stable, so jobs created
\* in the same millisecond keep the Map's insertion order (ascending id).
RECURSIVE SortByCreatedDesc(_, _)
SortByCreatedDesc(js, ids) ==
    IF ids = {} THEN << >>
    ELSE LET first == CHOOSE i \in ids : \A k \in ids :
                          \/ js[i].createdAt > js[k].createdAt
                          \/ js[i].createdAt = js[k].createdAt /\ i <= k
         IN <<first>> \o SortByCreatedDesc(js, ids \ {first})

getJobsByStatus(js, status) ==
    SortByCreatedDesc(js, {i \in DOMAIN js : js[i].status = status})

getQueuedJobs(js) == getJobsByStatus(js, "queued")

\* Array.from(this.jobs.values()).sort(...): all jobs, newest first.
getAllJobs(js) == SortByCreatedDesc(js, DOMAIN js)

getJob(js, jobId) == IF jobId \in DOMAIN js THEN js[jobId] ELSE NoValue

\* updateJob(jobId, {status, error}): spreads the updates over the stored job.
updateJob(js, jobId, status, error) ==
    IF jobId \notin DOMAIN js THEN js
    ELSE [js EXCEPT ![jobId] = [@ EXCEPT !.status = status, !.error = error]]

\* A job stored as already processing, whatever the caller passed.
NewJobStoredProcessing(status, t) ==
    [status |-> "processing", createdAt |-> t, result |-> NoValue, error |-> NoValue]

\* The Job object addJob builds: {id, ...jobData, createdAt, updatedAt}.
NewJob(status, t) ==
    [status |-> status, createdAt |-> t, result |-> NoValue, error |-> NoValue]

\* startProcessing that starts a loop without raising the isProcessing flag.
startProcessingNoFlag(l, js) ==
    IF isProcessing
    THEN UNCHANGED <<isProcessing, loops>>
    ELSE /\ isProcessing' = isProcessing
         /\ loops' = loops @@ (l :> [pc |-> "awaitQueued", queuedJobs |-> getQueuedJobs(js)])

\* startProcessing() from its entry to the first await (line 136): the
\* snapshot of the queued jobs is taken before the function suspends.
startProcessing(l, js) ==
    IF isProcessing
    THEN UNCHANGED <<isProcessing, loops>>
    ELSE /\ isProcessing' = TRUE
         /\ loops' = loops @@ (l :> [pc |-> "awaitQueued", queuedJobs |-> getQueuedJobs(js)])

\* ---------------------------------------------------------------- database

\* An UPDATE that leaves the result and error columns alone when the new
\* value is NULL.
updateJobStatusKeepsColumns(db, id, status, progress, result, error) ==
    IF id \notin DOMAIN db THEN db
    ELSE [db EXCEPT ![id] = [status |-> status, progress |-> progress,
                             result |-> IF result = NoResult THEN @.result ELSE result,
                             error |-> IF error \in {NoValue, ""} THEN @.error ELSE error]]

\* UPDATE jobs SET status, progress, result, error WHERE id: every column is
\* overwritten (result ? JSON.stringify(result) : null, error || null); an id
\* with no row updates nothing.  The database is taken to be reachable.  The
\* result column holds the JSON text of the object, kept here as the object.
updateJobStatus(db, id, status, progress, result, error) ==
    IF id \notin DOMAIN db THEN db
    ELSE [db EXCEPT ![id] = [status |-> status, progress |-> progress,
                             result |-> result,
                             error |-> IF error = "" THEN NoValue ELSE error]]

Bump(r, id) == [r EXCEPT ![id] = Min(@ + 1, 2)]

\* ----------------------------------------------------------------- actions

QueueInit ==
    /\ jobs = << >>
    /\ isProcessing = FALSE
    /\ pipelineSet = FALSE
    /\ loops = << >>
    /\ pipes = << >>
    /\ dbJobs = << >>
    /\ now = 0
    /\ nextId = 0
    /\ runs = [i \in QueueIds \cup DbIds |-> 0]
    /\ outcome = [i \in QueueIds \cup DbIds |-> NoValue]

\* No callLLM invocation has been entered.
LLMIdle ==
    /\ llmPc = "idle"
    /\ maxRetries = 0
    /\ attempt = 0
    /\ llmResult = NoValue
    /\ delay = 0
    /\ calls = 0
    /\ waits = 0
    /\ last = NoCall
    /\ blanks = 0
    /\ onlyTransient = TRUE

\* No retrieveRelevantContext invocation has been entered.
CtxIdle ==
    /\ ctxPc = "idle"
    /\ documentId = ""
    /\ documentType = ""
    /\ results = NoResults
    /\ refResults = NoResults
    /\ ctxReturn = << >>
    /\ queries = << >>
    /\ ctxThrew = FALSE

\* {} as ProjectEvaluation: an evaluation without criteria.
EmptyEvaluation == [c \in {} |-> [score |-> 0, details |-> ""]]

\* No processEvaluation invocation is followed stage by stage.
PeIdle ==
    /\ pePc = "idle"
    /\ peJob = 0
    /\ peCaller = "none"
    /\ stage = "none"
    /\ ctxNo = 0
    /\ cvEvaluation = EmptyEvaluation
    /\ projectEvaluation = EmptyEvaluation
    /\ peError = NoValue
    /\ effects = << >>
    /\ parsed = [s \in {"cv", "project"} |-> "none"]

ScoreIdle ==
    /\ scorePc = "idle"
    /\ parsedEvaluation = << >>
    /\ weightedScores = [cvScore |-> Zero, projectScore |-> Zero]
    /\ finalScore = [cvScore |-> 0, projectScore |-> 0, overallScore |-> 0]

\* No list of jobs has been asked for.
ListIdle == listed = [status |-> "none", jobs |-> << >>]

\* The limiters have just been constructed and no request has come.
LimiterIdle ==
    /\ store = [limiter \in {"evaluation", "general"} |-> << >>]
    /\ clock = 0
    /\ reply = [key |-> "", path |-> << >>, status |-> 0,
                general |-> [called |-> FALSE, allowed |-> TRUE, remaining |-> 0, resetTime |-> 0],
                evaluation |-> [called |-> FALSE, allowed |-> TRUE, remaining |-> 0, resetTime |-> 0]]
    /\ requests = << >>

\* No removal has been asked for.
RemovalIdle ==
    removed = [op |-> "none", arg |-> 0, deleted |-> FALSE, deletedCount |-> 0]

Init ==
    /\ QueueInit
    /\ LLMIdle
    /\ CtxIdle
    /\ PeIdle
    /\ ScoreIdle
    /\ ListIdle
    /\ LimiterIdle
    /\ RemovalIdle

SetEvaluationPipeline ==
    /\ ~pipelineSet
    /\ pipelineSet' = TRUE
    /\ UNCHANGED <<jobs, isProcessing, loops, pipes, dbJobs, now, nextId, runs, outcome>>
    /\ UNCHANGED exceptQueue

\* addJob has no await: it stores the job and, when no loop is running,
\* enters startProcessing, all in one synchronous segment.  Callers pass
\* status 'queued'; the clock may or may not have advanced by a millisecond
\* since the previous call.
AddJob ==
    /\ nextId < MaxJobs
    /\ \E t \in {now, now + 1} :
        /\ t <= MaxClock
        /\ now' = t
        /\ nextId' = nextId + 1
        /\ jobs' = jobs @@ (nextId' :> NewJob("queued", t))
        /\ IF ~isProcessing
           THEN startProcessing(nextId', jobs')
           ELSE UNCHANGED <<isProcessing, loops>>
    /\ UNCHANGED <<pipelineSet, pipes, dbJobs, runs, outcome>>
    /\ UNCHANGED exceptQueue

\* The loop resumes from `await this.getQueuedJobs()` with an empty list.
LoopExit(l) ==
    /\ l \in DOMAIN loops
    /\ loops[l].pc = "awaitQueued"
    /\ loops[l].queuedJobs = << >>
    /\ isProcessing' = FALSE
    /\ loops' = Remove(loops, l)
    /\ UNCHANGED <<jobs, pipelineSet, pipes, dbJobs, now, nextId, runs, outcome>>
    /\ UNCHANGED exceptQueue

\* The loop resumes with queuedJobs[0] and enters processJob, which enters
\* processEvaluation up to its first await (the write of line 443).
LoopAdmit(l) ==
    /\ l \in DOMAIN loops
    /\ loops[l].pc = "awaitQueued"
    /\ loops[l].queuedJobs # << >>
    /\ pipelineSet
    /\ LET job == Head(loops[l].queuedJobs) IN
        /\ pipes' = pipes @@ (l :> [job |-> job, pc |-> "begin"])
        /\ runs' = Bump(runs, job)
        /\ loops' = [loops EXCEPT ![l].pc = "awaitJob"]
    /\ UNCHANGED <<jobs, isProcessing, pipelineSet, dbJobs, now, nextId, outcome>>
    /\ UNCHANGED exceptQueue

\* processJob without a pipeline: throws, and its catch block records the
\* failure in the queue before it awaits updateJob.
LoopAdmitNoPipeline(l) ==
    /\ l \in DOMAIN loops
    /\ loops[l].pc = "awaitQueued"
    /\ loops[l].queuedJobs # << >>
    /\ ~pipelineSet
    /\ LET job == Head(loops[l].queuedJobs) IN
        /\ jobs' = updateJob(jobs, job, "failed", NotInitialized)
        /\ outcome' = [outcome EXCEPT ![job] = NotInitialized]
        /\ loops' = [loops EXCEPT ![l].pc = "awaitUpdate"]
    /\ UNCHANGED <<isProcessing, pipelineSet, pipes, dbJobs, now, nextId, runs>>
    /\ UNCHANGED exceptQueue

\* processJob returns after `await this.updateJob(...)`; the loop takes the
\* next snapshot and suspends again.
LoopAfterUpdate(l) ==
    /\ l \in DOMAIN loops
    /\ loops[l].pc = "awaitUpdate"
    /\ loops' = [loops EXCEPT ![l] = [pc |-> "awaitQueued", queuedJobs |-> getQueuedJobs(jobs)]]
    /\ UNCHANGED <<jobs, isProcessing, pipelineSet, pipes, dbJobs, now, nextId, runs, outcome>>
    /\ UNCHANGED exceptQueue

\* processEvaluation: the writes (processing, 10) and (processing, 20) land.
PipeProcessing(c) ==
    /\ c \in DOMAIN pipes
    /\ pipes[c].pc = "begin"
    /\ dbJobs' = updateJobStatus(dbJobs, pipes[c].job, "processing", 20, NoResult, NoValue)
    /\ pipes' = [pipes EXCEPT ![c].pc = "stages"]
    /\ UNCHANGED <<jobs, isProcessing, pipelineSet, loops, now, nextId, runs, outcome>>
    /\ UNCHANGED exceptQueue

\* processEvaluation ends normally: (completed, 100, result) lands and the
\* caller resumes.  The loop's processJob returns and the loop takes its
\* next snapshot; the route's callback ends.
PipeCompleted(c) ==
    /\ c \in DOMAIN pipes
    /\ pipes[c].pc = "stages"
    /\ LET job == pipes[c].job IN
        /\ dbJobs' = updateJobStatus(dbJobs, job, "completed", 100, PartialOrFinal, NoValue)
        /\ outcome' = [outcome EXCEPT ![job] = "ok"]
    /\ pipes' = Remove(pipes, c)
    /\ IF c \in DOMAIN loops
       THEN loops' = [loops EXCEPT ![c] = [pc |-> "awaitQueued", queuedJobs |-> getQueuedJobs(jobs)]]
       ELSE UNCHANGED loops
    /\ UNCHANGED <<jobs, isProcessing, pipelineSet, now, nextId, runs>>
    /\ UNCHANGED exceptQueue

\* processEvaluation's catch: (failed, 0, undefined, message) lands and the
\* error is rethrown.  processJob's catch records it in the queue; the
\* route's catch issues the same write once more.
PipeFailed(c) ==
    /\ c \in DOMAIN pipes
    /\ pipes[c].pc = "stages"
    /\ \E msg \in PipelineErrors :
        LET job == pipes[c].job IN
        /\ dbJobs' = updateJobStatus(dbJobs, job, "failed", 0, NoResult, msg)
        /\ outcome' = [outcome EXCEPT ![job] = msg]
        /\ IF c \in DOMAIN loops
           THEN /\ jobs' = updateJob(jobs, job, "failed", msg)
                /\ loops' = [loops EXCEPT ![c].pc = "awaitUpdate"]
                /\ pipes' = Remove(pipes, c)
           ELSE /\ pipes' = [pipes EXCEPT ![c] = [job |-> job, pc |-> "routeCatch", error |-> msg]]
                /\ UNCHANGED <<jobs, loops>>
    /\ UNCHANGED <<isProcessing, pipelineSet, now, nextId, runs>>
    /\ UNCHANGED exceptQueue

\* POST /evaluate of start.ts, for a request that passed the rate limiter,
\* authentication and the check of its fields: the row is created in status
\* processing and the pipeline is handed to setImmediate.
RouteEvaluate ==
    /\ \E id \in DbIds \ DOMAIN dbJobs :
        /\ \A k \in DbIds \ DOMAIN dbJobs : id <= k
        /\ dbJobs' = dbJobs @@ (id :> [status |-> "processing", progress |-> 0,
                                       result |-> NoResult, error |-> NoValue])
        /\ pipes' = pipes @@ (id :> [job |-> id, pc |-> "setImmediate"])
    /\ UNCHANGED <<jobs, isProcessing, pipelineSet, loops, now, nextId, runs, outcome>>
    /\ UNCHANGED exceptQueue

RouteStart(c) ==
    /\ c \in DOMAIN pipes
    /\ pipes[c].pc = "setImmediate"
    /\ pipes' = [pipes EXCEPT ![c].pc = "begin"]
    /\ runs' = Bump(runs, pipes[c].job)
    /\ UNCHANGED <<jobs, isProcessing, pipelineSet, loops, dbJobs, now, nextId, outcome>>
    /\ UNCHANGED exceptQueue

RouteCatch(c) ==
    /\ c \in DOMAIN pipes
    /\ pipes[c].pc = "routeCatch"
    /\ dbJobs' = updateJobStatus(dbJobs, pipes[c].job, "failed", 0, NoResult, pipes[c].error)
    /\ pipes' = Remove(pipes, c)
    /\ UNCHANGED <<jobs, isProcessing, pipelineSet, loops, now, nextId, runs, outcome>>
    /\ UNCHANGED exceptQueue

\* ------------------------------------------------------------------ callLLM

\* What generateContent can produce: a result whose text is undefined or a
\* short text, an ApiError with an HTTP status, or
\* another Error (network failure, timeout).
\* A text is kept as the sequence of its pieces: a blank, a word, a code
\* fence (three backticks, written here with apostrophes), or a complete
\* JSON document.
RubricJson == "{<every criterion>: {score: 4, details: 'ok'}}"
JsonDocs == {"null", "{}", RubricJson}
Fences == {"'''json", "'''"}
Chars == {" ", "x"} \cup Fences \cup JsonDocs
Texts == UNION {[1..n -> Chars] : n \in 0..MaxTextLen}
Responses == {[kind |-> "result", defined |-> TRUE, text |-> t] : t \in Texts}
                 \cup {[kind |-> "result", defined |-> FALSE, text |-> << >>]}
StatusText(st) ==
    CASE st = 400 -> "Bad Request"
      [] st = 403 -> "Forbidden"
      [] st = 404 -> "Not Found"
      [] st = 429 -> "Too Many Requests"
      [] st = 500 -> "Internal Server Error"
EmptyResponse == [kind |-> "Error", status |-> 0, message |-> "Empty response from LLM"]
ApiErrors == {[kind |-> "ApiError", status |-> st, message |-> StatusText(st)] :
                  st \in {400, 403, 404, 429, 500}}
OtherErrors == {[kind |-> "Error", status |-> 0, message |-> "fetch failed"]}
Thrown == ApiErrors \cup OtherErrors
Jitters == {0, 500, 999}

\* String.prototype.trim
RECURSIVE TrimStart(_)
TrimStart(t) == IF t # << >> /\ Head(t) = " " THEN TrimStart(Tail(t)) ELSE t
RECURSIVE TrimEnd(_)
TrimEnd(t) == IF t # << >> /\ t[Len(t)] = " " THEN TrimEnd(SubSeq(t, 1, Len(t) - 1)) ELSE t
Trim(t) == TrimEnd(TrimStart(t))

\* A response counts as blank only when it has no characters at all.
IsBlankNoTrim(result) == ~result.defined \/ result.text = << >>

\* !response || response.trim().length === 0
IsBlank(result) == ~result.defined \/ result.text = << >> \/ Len(Trim(result.text)) = 0

\* No fault is treated as final.
IsNonRetryableNever(e) == FALSE

\* Only a bad request is treated as final.
IsNonRetryableOnly400(e) == e.kind = "ApiError" /\ e.status = 400

\* error instanceof ApiError && (error.status === 400 || error.status === 403)
IsNonRetryable(e) == e.kind = "ApiError" /\ e.status \in {400, 403}

\* The exponent counts the retries, not the attempts.
baseDelayFromZero(a) == 2 ^ (a - 1) * 1000

\* const baseDelay = 2 ** attempt * 1000
baseDelay(a) == 2 ^ a * 1000

\* The attempts are counted one short.
IsLastAttemptOneShort(a, max) == a + 1 >= max

\* attempt === maxRetries
IsLastAttempt(a, max) == a = max

\* The head of `for (attempt = a; attempt <= maxRetries; ...)`: the next
\* generateContent call is made, or the loop is left for line 81.
LoopHead(a) ==
    /\ attempt' = a
    /\ IF a <= maxRetries
       THEN /\ llmPc' = "generateContent"
            /\ calls' = calls + 1
            /\ llmResult' = llmResult
       ELSE /\ llmPc' = "done"
            /\ calls' = calls
            /\ llmResult' = [response |-> << >>, success |-> FALSE, error |-> <<"Max retries exceeded">>]

\* The catch block of one attempt, for the error e.
Catch(e) ==
    /\ calls' = calls
    /\ attempt' = attempt
    /\ IF IsNonRetryable(e)
       THEN /\ llmPc' = "done"
            /\ llmResult' = [response |-> << >>, success |-> FALSE,
                              error |-> <<"API Error: ", e.message>>]
            /\ delay' = delay
       ELSE IF IsLastAttempt(attempt, maxRetries)
       THEN /\ llmPc' = "done"
            /\ llmResult' = [response |-> << >>, success |-> FALSE, error |-> <<e.message>>]
            /\ delay' = delay
       ELSE /\ llmPc' = "setTimeout"
            /\ llmResult' = llmResult
            /\ \E jitter \in Jitters : delay' = baseDelay(attempt) + jitter

\* Faults the caller may expect to go away: an empty response, a failure
\* without an HTTP status, a server fault.
IsTransient(o) ==
    \/ o.kind = "Error"
    \/ o.kind = "ApiError" /\ o.status >= 500

\* callLLM(prompt, maxRetries, temperature) is entered.
CallLLM ==
    /\ llmPc = "idle"
    /\ LoopHead(1)
    /\ UNCHANGED <<maxRetries, delay, waits, last, blanks, onlyTransient>>
    /\ UNCHANGED exceptLLM

\* generateContent resolves with a result.
GenerateReturns ==
    /\ llmPc = "generateContent"
    /\ \E result \in Responses :
        IF IsBlank(result)
        THEN /\ Catch(EmptyResponse)
             /\ last' = EmptyResponse
             /\ blanks' = blanks + 1
             /\ UNCHANGED onlyTransient
        ELSE /\ llmPc' = "done"
             /\ llmResult' = [response |-> Trim(result.text), success |-> TRUE, error |-> << >>]
             /\ last' = result
             /\ onlyTransient' = FALSE
             /\ UNCHANGED <<attempt, calls, delay, blanks>>
    /\ UNCHANGED <<maxRetries, waits>>
    /\ UNCHANGED exceptLLM

\* generateContent rejects.
GenerateThrows ==
    /\ llmPc = "generateContent"
    /\ \E e \in Thrown :
        /\ Catch(e)
        /\ last' = e
        /\ onlyTransient' = (onlyTransient /\ IsTransient(e))
    /\ UNCHANGED <<maxRetries, waits, blanks>>
    /\ UNCHANGED exceptLLM

\* The backoff timer fires and the loop goes on to the next attempt.
TimerFires ==
    /\ llmPc = "setTimeout"
    /\ waits' = waits + 1
    /\ LoopHead(attempt + 1)
    /\ UNCHANGED <<maxRetries, delay, last, blanks, onlyTransient>>
    /\ UNCHANGED exceptLLM

InitLLM ==
    /\ QueueInit
    /\ CtxIdle
    /\ PeIdle
    /\ ScoreIdle
    /\ ListIdle
    /\ LimiterIdle
    /\ RemovalIdle
    /\ llmPc = "idle"
    /\ maxRetries \in 0..MaxAttempts
    /\ attempt = 0
    /\ llmResult = NoValue
    /\ delay = 0
    /\ calls = 0
    /\ waits = 0
    /\ last = NoCall
    /\ blanks = 0
    /\ onlyTransient = TRUE

NextLLM ==
    \/ CallLLM
    \/ GenerateReturns
    \/ GenerateThrows
    \/ TimerFires

SpecLLM == InitLLM /\ [][NextLLM]_vars

\* callLLM's own steps are taken once they are possible: the call is
\* entered and a timer that was set fires.  Nothing in the code bounds the
\* wait for generateContent (no timeout option, no AbortSignal, no race with
\* a timer), so whether a call ever resolves or rejects is left to the
\* service.
FairnessLLM ==
    /\ WF_vars(CallLLM)
    /\ WF_vars(TimerFires)

FairSpecLLM == InitLLM /\ [][NextLLM]_vars /\ FairnessLLM

\* --------------------------------------------------- retrieveRelevantContext

\* The document types the pipeline asks for (lines 159, 165, 171, 271, 277,
\* 283), and the document ids: '' for reference material, the id of an
\* uploaded document otherwise.
DocumentTypes == {"cv", "project_report", "job_description", "scoring_rubric", "case_study"}
DocumentIds == {"", "cv-document", "project-report"}

\* The passages a collection can return, best match first (nResults = 5).
CandidatePassages ==
    <<"candidate passage 1", "candidate passage 2", "candidate passage 3",
      "candidate passage 4", "candidate passage 5">>
ReferencePassages ==
    <<"reference passage 1", "reference passage 2", "reference passage 3",
      "reference passage 4", "reference passage 5">>

\* What collection.query can resolve with: no documents field, an empty
\* documents array, or one list of up to MaxPassages passages.
QueryResults(ps) ==
    {NoResults, [hasDocuments |-> TRUE, documents |-> << >>]}
        \cup {[hasDocuments |-> TRUE, documents |-> <<SubSeq(ps, 1, n)>>] : n \in 0..MaxPassages}

\* Array.prototype.join(sep), the string kept as the sequence of its pieces.
RECURSIVE Join(_, _)
Join(ps, sep) ==
    IF ps = << >> THEN << >>
    ELSE IF Len(ps) = 1 THEN <<ps[1]>>
    ELSE <<ps[1], sep>> \o Join(Tail(ps), sep)

\* One placeholder for every document type.
FallbackContextGeneric(type) == <<"Content available for evaluation">>

\* The catch block's choice of a placeholder (lines 120-146).
FallbackContext(type) ==
    CASE type = "cv" -> <<"CV content available for analysis">>
      [] type = "project_report" -> <<"Project report content available for analysis">>
      [] type = "job_description" -> <<"JOB REQUIREMENTS: Product Engineer (Backend) ...">>
      [] type = "scoring_rubric" -> <<"EVALUATION CRITERIA: Technical Skills: 1-5 scale ...">>
      [] OTHER -> <<"Content available for evaluation">>

\* The first result is returned whenever it has a list, even an empty one.
HasPassagesAnyList(r) == r.hasDocuments /\ Len(r.documents) >= 1

\* results.documents?.[0] && results.documents[0].length > 0
HasPassages(r) == r.hasDocuments /\ Len(r.documents) >= 1 /\ Len(r.documents[1]) > 0

\* refResults.documents?.[0]: an empty list is truthy.
HasList(r) == r.hasDocuments /\ Len(r.documents) >= 1

\* retrieveRelevantContext(documentId, query, documentType) is entered and
\* suspends at getOrCreateCollection('documents').
RetrieveRelevantContext ==
    /\ ctxPc = "idle"
    /\ ctxPc' = "getCollection"
    /\ UNCHANGED <<documentId, documentType, results, refResults, ctxReturn, queries, ctxThrew>>
    /\ UNCHANGED exceptCtx

\* The collection is there: the query scoped by documentId is sent.
GetCollectionResolves ==
    /\ ctxPc = "getCollection"
    /\ ctxPc' = "query"
    /\ queries' = Append(queries, [collection |-> "documents",
                                   queryTexts |-> <<documentType, " ", "query">>,
                                   whereKey |-> "documentId", whereValue |-> documentId])
    /\ UNCHANGED <<documentId, documentType, results, refResults, ctxReturn, ctxThrew>>
    /\ UNCHANGED exceptCtx

\* The first query resolves: its passages are returned, or the function
\* goes on to getOrCreateCollection('reference_documents').
QueryResolves ==
    /\ ctxPc = "query"
    /\ \E r \in QueryResults(CandidatePassages) :
        /\ results' = r
        /\ IF HasPassages(r)
           THEN /\ ctxPc' = "returned"
                /\ ctxReturn' = Join(r.documents[1], "\n\n")
           ELSE /\ ctxPc' = "getRefCollection"
                /\ UNCHANGED ctxReturn
    /\ UNCHANGED <<documentId, documentType, refResults, queries, ctxThrew>>
    /\ UNCHANGED exceptCtx

\* The reference collection is there: the query scoped by documentType is sent.
GetRefCollectionResolves ==
    /\ ctxPc = "getRefCollection"
    /\ ctxPc' = "refQuery"
    /\ queries' = Append(queries, [collection |-> "reference_documents",
                                   queryTexts |-> <<"query">>,
                                   whereKey |-> "documentType", whereValue |-> documentType])
    /\ UNCHANGED <<documentId, documentType, results, refResults, ctxReturn, ctxThrew>>
    /\ UNCHANGED exceptCtx

\* The second query resolves: its passages, or '' when it has no list.
RefQueryResolves ==
    /\ ctxPc = "refQuery"
    /\ \E r \in QueryResults(ReferencePassages) :
        /\ refResults' = r
        /\ ctxReturn' = IF HasList(r) THEN Join(r.documents[1], "\n\n") ELSE << >>
    /\ ctxPc' = "returned"
    /\ UNCHANGED <<documentId, documentType, results, queries, ctxThrew>>
    /\ UNCHANGED exceptCtx

\* Any of the four awaited calls rejects (ChromaDB unreachable, embedding
\* failure, bad collection): the catch block returns a placeholder.
ContextCallRejects ==
    /\ ctxPc \in {"getCollection", "query", "getRefCollection", "refQuery"}
    /\ ctxThrew' = TRUE
    /\ ctxReturn' = FallbackContext(documentType)
    /\ ctxPc' = "returned"
    /\ UNCHANGED <<documentId, documentType, results, refResults, queries>>
    /\ UNCHANGED exceptCtx

InitCtx ==
    /\ QueueInit
    /\ LLMIdle
    /\ PeIdle
    /\ ScoreIdle
    /\ ListIdle
    /\ LimiterIdle
    /\ RemovalIdle
    /\ ctxPc = "idle"
    /\ documentId \in DocumentIds
    /\ documentType \in DocumentTypes
    /\ results = NoResults
    /\ refResults = NoResults
    /\ ctxReturn = << >>
    /\ queries = << >>
    /\ ctxThrew = FALSE

NextCtx ==
    \/ RetrieveRelevantContext
    \/ GetCollectionResolves
    \/ QueryResolves
    \/ GetRefCollectionResolves
    \/ RefQueryResolves
    \/ ContextCallRejects

SpecCtx == InitCtx /\ [][NextCtx]_vars

\* ------------------------------------------------------- processEvaluation

CvCriteria == {"technicalSkillsMatch", "experienceLevel", "relevantAchievements", "culturalFit"}
ProjectCriteria == {"correctness", "codeQuality", "resilience", "documentation", "creativity"}
Criteria(s) == IF s = "cv" THEN CvCriteria ELSE ProjectCriteria


\* The concatenation of the pieces of a string.
RECURSIVE Flat(_)
Flat(t) == IF t = << >> THEN "" ELSE Head(t) \o Flat(Tail(t))

\* The second replace of lines 223 and 225: a closing fence at the end of
\* the string goes, with the blanks before it.
StripClosingFence(t) ==
    IF t # << >> /\ t[Len(t)] = "'''" THEN TrimEnd(SubSeq(t, 1, Len(t) - 1)) ELSE t

\* Lines 221-226: an opening fence, with or without `json`, is removed with
\* the blanks after it, and then a closing fence.
StripFences(response) ==
    LET jsonString == Trim(response) IN
    IF jsonString # << >> /\ Head(jsonString) \in Fences
    THEN StripClosingFence(TrimStart(Tail(jsonString)))
    ELSE jsonString

\* JSON.parse: one JSON document, blanks allowed around it; anything else
\* is a SyntaxError.
JSONparse(t) ==
    LET u == Trim(t) IN
    IF Len(u) = 1 /\ u[1] \in JsonDocs
    THEN [ok |-> TRUE, doc |-> u[1]]
    ELSE [ok |-> FALSE, doc |-> ""]

\* evaluation.<criterion>?.score and ?.details of a parsed document.  A
\* score is a number, is absent, or is a text that stands for no number
\* (such as "high").
RawScore(doc, c) ==
    IF doc = RubricJson THEN [kind |-> "number", value |-> 4] ELSE [kind |-> "absent", value |-> 0]
RawDetails(doc, c) ==
    IF doc = RubricJson THEN "ok" ELSE ""

\* The evaluation returned after a parsing error, with the lowest score.
DefaultEvaluationLowest(cs) == [c \in cs |-> [score |-> 1, details |-> "Evaluation parsing failed"]]

\* The evaluation returned after a parsing error (lines 254-259, 374-380).
DefaultEvaluation(cs) == [c \in cs |-> [score |-> 3, details |-> "Evaluation parsing failed"]]

\* Math.max(1, Math.min(5, score || 3)): an absent score and the number 0
\* are falsy and give 3; a text that stands for no number is truthy, and
\* Math.min and Math.max of it are NaN.
ValidatedScore(raw) ==
    IF raw.kind = "absent" \/ (raw.kind = "number" /\ raw.value = 0) THEN 3
    ELSE IF raw.kind = "text" THEN NaN
    ELSE Max(1, Min(5, raw.value))

\* The object that JSON.parse returns for a document: per criterion, what
\* evaluation.<criterion>?.score and ?.details read.
ParsedObject(doc) ==
    [c \in CvCriteria \cup ProjectCriteria |->
        [score |-> RawScore(doc, c), details |-> RawDetails(doc, c)]]

\* Lines 231-248 and 347-368: the validated score and
\* details || 'No details provided' for every criterion.
ValidatedEvaluation(evaluation, cs) ==
    [c \in cs |->
        [score |-> ValidatedScore(evaluation[c].score),
         details |-> IF evaluation[c].details # "" THEN evaluation[c].details
                     ELSE "No details provided"]]

\* How the try block of lines 219-260 ends for a response: with the
\* validated fields, or in the catch block when JSON.parse throws or the
\* document is null (reading a property of null throws a TypeError).
ParseOutcome(response) ==
    LET p == JSONparse(StripFences(response)) IN
    IF p.ok /\ p.doc # "null" THEN "ok" ELSE "failed"

ParseEvaluation(response, cs) ==
    IF ParseOutcome(response) = "ok"
    THEN ValidatedEvaluation(ParsedObject(JSONparse(StripFences(response)).doc), cs)
    ELSE DefaultEvaluation(cs)

\* cvWeights and projectWeights (lines 465-478): the numbers that the
\* literals 0.4, 0.25, ... denote.
cvWeights ==
    [technicalSkillsMatch |-> Double(40, 100), experienceLevel |-> Double(25, 100),
     relevantAchievements |-> Double(20, 100), culturalFit |-> Double(15, 100)]
projectWeights ==
    [correctness |-> Double(30, 100), codeQuality |-> Double(25, 100),
     resilience |-> Double(20, 100), documentation |-> Double(15, 100),
     creativity |-> Double(10, 100)]

\* The criteria in the order in which the object literals of the source
\* list them, which is the order of Object.entries and Object.values.
KeyOrder ==
    <<"technicalSkillsMatch", "experienceLevel", "relevantAchievements", "culturalFit",
      "correctness", "codeQuality", "resilience", "documentation", "creativity">>
Keys(object) == SelectSeq(KeyOrder, LAMBDA c : c \in DOMAIN object)

\* array.reduce((sum, x) => sum + x, 0)
RECURSIVE Reduce(_, _)
Reduce(sum, array) ==
    IF array = << >> THEN sum ELSE Reduce(Plus(sum, Head(array)), Tail(array))

\* weights[key] || 0
WeightOf(weights, key) == IF key \in DOMAIN weights THEN weights[key] ELSE Zero

\* value.score * weight, the score being a whole number or NaN
ScoreTimesWeight(score, weight) == IF score = NaN THEN NotANumber ELSE Times(score, weight)

\* The sum is divided by the number of criteria.
calculateWeightedScorePlainMean(evaluation, weights) ==
    LET keys == Keys(evaluation)
        scores == [i \in 1..Len(keys) |->
                      ScoreTimesWeight(evaluation[keys[i]].score, FromNat(1))]
    IN Divide(Reduce(Zero, scores), FromNat(Len(keys)))

\* The sum of the products starts at 1.
calculateWeightedScoreFromOne(evaluation, weights) ==
    LET keys == Keys(evaluation)
        scores == [i \in 1..Len(keys) |->
                      ScoreTimesWeight(evaluation[keys[i]].score, WeightOf(weights, keys[i]))]
        names == Keys(weights)
        totalWeight == Reduce(Zero, [i \in 1..Len(names) |-> weights[names[i]]])
    IN IF Positive(totalWeight) THEN Divide(Reduce(FromNat(1), scores), totalWeight) ELSE Zero

\* Lines 421-432.
calculateWeightedScore(evaluation, weights) ==
    LET keys == Keys(evaluation)
        scores == [i \in 1..Len(keys) |->
                      ScoreTimesWeight(evaluation[keys[i]].score, WeightOf(weights, keys[i]))]
        names == Keys(weights)
        totalWeight == Reduce(Zero, [i \in 1..Len(names) |-> weights[names[i]]])
    IN IF Positive(totalWeight) THEN Divide(Reduce(Zero, scores), totalWeight) ELSE Zero

\* The object written at progress 50 (lines 449-458).
PartialResult(cv) ==
    [kind |-> "EvaluationResult", cvEvaluation |-> cv, projectEvaluation |-> EmptyEvaluation,
     overallSummary |-> << >>,
     finalScore |-> [cvScore |-> 0, projectScore |-> 0, overallScore |-> 0]]

\* The overall score is the sum of the two weighted scores.
FinalScoreNotHalved(cvScore, projectScore) ==
    [cvScore |-> RoundedToHundredths(cvScore),
     projectScore |-> RoundedToHundredths(projectScore),
     overallScore |-> RoundedToHundredths(Plus(cvScore, projectScore))]

\* finalScore of lines 493-497, from the two weighted scores of lines
\* 480-481 and overallScore = (cvScore + projectScore) / 2 of line 482; each
\* reported number is named by its hundredths.
FinalScore(cvScore, projectScore) ==
    [cvScore |-> RoundedToHundredths(cvScore),
     projectScore |-> RoundedToHundredths(projectScore),
     overallScore |-> RoundedToHundredths(Halve(Plus(cvScore, projectScore)))]

\* The object written at progress 100 (lines 489-498).
FinalResult(cv, project, summary) ==
    [kind |-> "EvaluationResult", cvEvaluation |-> cv, projectEvaluation |-> project,
     overallSummary |-> summary,
     finalScore |-> FinalScore(calculateWeightedScore(cv, cvWeights),
                               calculateWeightedScore(project, projectWeights))]

SummaryFallback == <<"Failed to generate summary due to technical issues.">>

\* The summary prompt gets as many attempts as the evaluation prompts.
StageRetriesAllThree(s) == 3

\* The documentId and documentType arguments of the three retrievals of a
\* stage (lines 156-172 and 268-284).
StageRetrievals(s) ==
    IF s = "cv"
    THEN <<[documentId |-> "cv-document", documentType |-> "cv"],
           [documentId |-> "", documentType |-> "job_description"],
           [documentId |-> "", documentType |-> "scoring_rubric"]>>
    ELSE <<[documentId |-> "project-report", documentType |-> "project_report"],
           [documentId |-> "", documentType |-> "case_study"],
           [documentId |-> "", documentType |-> "scoring_rubric"]>>

\* The maxRetries argument of a stage's callLLM (lines 213, 329, 412).
StageRetries(s) == IF s = "summary" THEN 2 ELSE 3

\* The project stage is entered first.
StageAtSwapped(pc) == IF pc = "w20" THEN "project" ELSE "cv"

\* The stage entered after a checkpoint: evaluateCV after (processing, 20),
\* evaluateProjectReport after (processing, 60).
StageAt(pc) == IF pc = "w20" THEN "cv" ELSE "project"

\* The checkpoints after the two evaluations, exchanged.
CheckpointAfterSwapped(s) == IF s = "cv" THEN 80 ELSE 50

\* The checkpoint written when a stage's evaluation has returned.
CheckpointAfter(s) == IF s = "cv" THEN 50 ELSE 80

\* The message of the Error thrown at lines 216 and 332.
StageError(s, llmError) ==
    (IF s = "cv" THEN "CV evaluation failed: " ELSE "Project evaluation failed: ")
        \o Flat(llmError)

ResultKind(result) ==
    IF result = NoResult THEN "none"
    ELSE IF result.projectEvaluation = EmptyEvaluation THEN "partial"
    ELSE "final"

\* await db.updateJobStatus(jobId, status, progress, result, error)
Write(status, progress, result, error) ==
    /\ dbJobs' = updateJobStatus(dbJobs, peJob, status, progress, result, error)
    /\ effects' = Append(effects, [op |-> "write", status |-> status, progress |-> progress,
                                   result |-> ResultKind(result)])

\* retrieveRelevantContext is entered for the n-th retrieval of the stage s.
BeginRetrieval(s, n) ==
    /\ ctxNo' = n
    /\ ctxPc' = "getCollection"
    /\ documentId' = StageRetrievals(s)[n].documentId
    /\ documentType' = StageRetrievals(s)[n].documentType
    /\ results' = NoResults
    /\ refResults' = NoResults
    /\ ctxReturn' = << >>
    /\ queries' = << >>
    /\ ctxThrew' = FALSE
    /\ effects' = Append(effects, [op |-> "retrieve", stage |-> s,
                                   documentType |-> StageRetrievals(s)[n].documentType])

\* The variables of a callLLM invocation that has returned, ready for the
\* next invocation with the given maxRetries.
LLMReset(max) ==
    /\ llmPc' = "idle"
    /\ maxRetries' = max
    /\ attempt' = 0
    /\ llmResult' = NoValue
    /\ delay' = 0
    /\ calls' = 0
    /\ waits' = 0
    /\ last' = NoCall
    /\ blanks' = 0
    /\ onlyTransient' = TRUE

\* The variables of retrieveRelevantContext once the caller has its string.
CtxReset ==
    /\ ctxPc' = "idle"
    /\ documentId' = ""
    /\ documentType' = ""
    /\ results' = NoResults
    /\ refResults' = NoResults
    /\ ctxReturn' = << >>
    /\ queries' = << >>
    /\ ctxThrew' = FALSE

\* processEvaluation(jobId, ...) is entered: the write (processing, 10).
ProcessEvaluation ==
    /\ pePc = "entered"
    /\ Write("processing", 10, NoResult, NoValue)
    /\ pePc' = "w10"
    /\ UNCHANGED <<jobs, isProcessing, pipelineSet, loops, pipes, now, nextId, runs, outcome>>
    /\ UNCHANGED <<peJob, peCaller, stage, ctxNo, cvEvaluation, projectEvaluation, peError, parsed>>
    /\ UNCHANGED <<lvars, cvars>>
    /\ UNCHANGED <<svars, avars, rvars, dvars>>

\* Line 446: the write (processing, 20).
PeCheckpoint20 ==
    /\ pePc = "w10"
    /\ Write("processing", 20, NoResult, NoValue)
    /\ pePc' = "w20"
    /\ UNCHANGED <<jobs, isProcessing, pipelineSet, loops, pipes, now, nextId, runs, outcome>>
    /\ UNCHANGED <<peJob, peCaller, stage, ctxNo, cvEvaluation, projectEvaluation, peError, parsed>>
    /\ UNCHANGED <<lvars, cvars>>
    /\ UNCHANGED <<svars, avars, rvars, dvars>>

\* evaluateCV (line 447) or evaluateProjectReport (line 462) is entered and
\* suspends in its first retrieval.
EvaluateEnter ==
    /\ pePc \in {"w20", "w60"}
    /\ stage' = StageAt(pePc)
    /\ BeginRetrieval(stage', 1)
    /\ pePc' = "ctx"
    /\ maxRetries' = StageRetries(stage')
    /\ UNCHANGED <<llmPc, attempt, llmResult, delay, calls, waits, last, blanks, onlyTransient>>
    /\ UNCHANGED <<peJob, peCaller, cvEvaluation, projectEvaluation, peError, parsed>>
    /\ UNCHANGED qvars
    /\ UNCHANGED <<svars, avars, rvars, dvars>>

\* A retrieval has returned its string and the next one is entered.
EvaluateNextContext ==
    /\ pePc = "ctx"
    /\ ctxPc = "returned"
    /\ ctxNo < 3
    /\ BeginRetrieval(stage, ctxNo + 1)
    /\ UNCHANGED <<pePc, peJob, peCaller, stage, cvEvaluation, projectEvaluation, peError, parsed>>
    /\ UNCHANGED <<qvars, lvars>>
    /\ UNCHANGED <<svars, avars, rvars, dvars>>

\* The third retrieval has returned: the prompt is built and callLLM is
\* entered (lines 213 and 329).
EvaluateCallLLM ==
    /\ pePc = "ctx"
    /\ ctxPc = "returned"
    /\ ctxNo = 3
    /\ CtxReset
    /\ ctxNo' = 0
    /\ LoopHead(1)
    /\ effects' = Append(effects, [op |-> "callLLM", stage |-> stage])
    /\ pePc' = "callLLM"
    /\ UNCHANGED <<maxRetries, delay, waits, last, blanks, onlyTransient>>
    /\ UNCHANGED <<peJob, peCaller, stage, cvEvaluation, projectEvaluation, peError, parsed>>
    /\ UNCHANGED qvars
    /\ UNCHANGED <<svars, avars, rvars, dvars>>

\* callLLM has returned a failure to evaluateCV or evaluateProjectReport:
\* the Error of line 216 or 332 reaches the catch block of processEvaluation,
\* which writes (failed, 0, undefined, message).
StageFails ==
    /\ pePc = "callLLM"
    /\ llmPc = "done"
    /\ stage \in {"cv", "project"}
    /\ ~llmResult.success
    /\ peError' = StageError(stage, llmResult.error)
    /\ Write("failed", 0, NoResult, peError')
    /\ pePc' = "wFailed"
    /\ LLMReset(0)
    /\ UNCHANGED <<jobs, isProcessing, pipelineSet, loops, pipes, now, nextId, runs, outcome>>
    /\ UNCHANGED <<peJob, peCaller, stage, ctxNo, cvEvaluation, projectEvaluation, parsed>>
    /\ UNCHANGED cvars
    /\ UNCHANGED <<svars, avars, rvars, dvars>>

\* callLLM has returned a text: it is parsed, and the checkpoint after the
\* stage is written, with the partial result after the CV stage.
StageReturns ==
    /\ pePc = "callLLM"
    /\ llmPc = "done"
    /\ stage \in {"cv", "project"}
    /\ llmResult.success
    /\ parsed' = [parsed EXCEPT ![stage] = ParseOutcome(llmResult.response)]
    /\ LET evaluation == ParseEvaluation(llmResult.response, Criteria(stage)) IN
        IF stage = "cv"
        THEN /\ cvEvaluation' = evaluation
             /\ Write("processing", CheckpointAfter(stage), PartialResult(evaluation), NoValue)
             /\ pePc' = "w50"
             /\ LLMReset(0)
             /\ UNCHANGED projectEvaluation
        ELSE /\ projectEvaluation' = evaluation
             /\ Write("processing", CheckpointAfter(stage), NoResult, NoValue)
             /\ pePc' = "w80"
             /\ LLMReset(StageRetries("summary"))
             /\ UNCHANGED cvEvaluation
    /\ UNCHANGED <<jobs, isProcessing, pipelineSet, loops, pipes, now, nextId, runs, outcome>>
    /\ UNCHANGED <<peJob, peCaller, stage, ctxNo, peError>>
    /\ UNCHANGED cvars
    /\ UNCHANGED <<svars, avars, rvars, dvars>>

\* Line 461: the write (processing, 60).
PeCheckpoint60 ==
    /\ pePc = "w50"
    /\ Write("processing", 60, NoResult, NoValue)
    /\ pePc' = "w60"
    /\ UNCHANGED <<jobs, isProcessing, pipelineSet, loops, pipes, now, nextId, runs, outcome>>
    /\ UNCHANGED <<peJob, peCaller, stage, ctxNo, cvEvaluation, projectEvaluation, peError, parsed>>
    /\ UNCHANGED <<lvars, cvars>>
    /\ UNCHANGED <<svars, avars, rvars, dvars>>

\* generateFinalSummary is entered and calls callLLM(prompt, 2, 0.4).
GenerateFinalSummary ==
    /\ pePc = "w80"
    /\ stage' = "summary"
    /\ LoopHead(1)
    /\ effects' = Append(effects, [op |-> "callLLM", stage |-> "summary"])
    /\ pePc' = "callLLM"
    /\ UNCHANGED <<maxRetries, delay, waits, last, blanks, onlyTransient>>
    /\ UNCHANGED <<peJob, peCaller, ctxNo, cvEvaluation, projectEvaluation, peError, parsed>>
    /\ UNCHANGED <<qvars, cvars>>
    /\ UNCHANGED <<svars, avars, rvars, dvars>>

\* generateFinalSummary returns the text or its fixed replacement, and the
\* write (completed, 100, result) is made.
PeComplete ==
    /\ pePc = "callLLM"
    /\ llmPc = "done"
    /\ stage = "summary"
    /\ LET overallSummary == IF llmResult.success THEN llmResult.response ELSE SummaryFallback IN
        Write("completed", 100, FinalResult(cvEvaluation, projectEvaluation, overallSummary), NoValue)
    /\ pePc' = "w100"
    /\ LLMReset(0)
    /\ UNCHANGED <<jobs, isProcessing, pipelineSet, loops, pipes, now, nextId, runs, outcome>>
    /\ UNCHANGED <<peJob, peCaller, stage, ctxNo, cvEvaluation, projectEvaluation, peError, parsed>>
    /\ UNCHANGED cvars
    /\ UNCHANGED <<svars, avars, rvars, dvars>>

\* processEvaluation returns its result: the callback of the route ends, the
\* loop of the queue leaves processJob and lists the queued jobs again.
PeReturn ==
    /\ pePc = "w100"
    /\ pePc' = "returned"
    /\ outcome' = [outcome EXCEPT ![peJob] = "ok"]
    /\ IF peCaller = "queue"
       THEN loops' = [l \in DOMAIN loops |->
                         [pc |-> "awaitQueued", queuedJobs |-> getQueuedJobs(jobs)]]
       ELSE UNCHANGED loops
    /\ UNCHANGED <<jobs, isProcessing, pipelineSet, pipes, dbJobs, now, nextId, runs>>
    /\ UNCHANGED <<peJob, peCaller, stage, ctxNo, cvEvaluation, projectEvaluation, peError,
                   effects, parsed>>
    /\ UNCHANGED <<lvars, cvars>>
    /\ UNCHANGED <<svars, avars, rvars, dvars>>

\* processEvaluation rethrows (line 510): the catch block of processJob
\* records the failure in the queue, that of the route writes it to the
\* job table once more.
PeRethrow ==
    /\ pePc = "wFailed"
    /\ pePc' = "returned"
    /\ outcome' = [outcome EXCEPT ![peJob] = peError]
    /\ IF peCaller = "queue"
       THEN /\ jobs' = updateJob(jobs, peJob, "failed", peError)
            /\ loops' = [l \in DOMAIN loops |-> [loops[l] EXCEPT !.pc = "awaitUpdate"]]
            /\ UNCHANGED dbJobs
       ELSE /\ dbJobs' = updateJobStatus(dbJobs, peJob, "failed", 0, NoResult, peError)
            /\ UNCHANGED <<jobs, loops>>
    /\ UNCHANGED <<isProcessing, pipelineSet, pipes, now, nextId, runs>>
    /\ UNCHANGED <<peJob, peCaller, stage, ctxNo, cvEvaluation, projectEvaluation, peError,
                   effects, parsed>>
    /\ UNCHANGED <<lvars, cvars>>
    /\ UNCHANGED <<svars, avars, rvars, dvars>>

\* processEvaluation has just been called: by the loop of the queue for the
\* job it admitted (whose id has no row in the job table), or by the
\* callback of the /evaluate route for the row the route created.
InitPipe ==
    /\ LLMIdle
    /\ CtxIdle
    /\ ScoreIdle
    /\ ListIdle
    /\ LimiterIdle
    /\ RemovalIdle
    /\ pePc = "entered"
    /\ peCaller \in {"queue", "route"}
    /\ peJob = IF peCaller = "queue" THEN 1 ELSE MaxJobs + 1
    /\ stage = "none"
    /\ ctxNo = 0
    /\ cvEvaluation = EmptyEvaluation
    /\ projectEvaluation = EmptyEvaluation
    /\ peError = NoValue
    /\ effects = << >>
    /\ parsed = [s \in {"cv", "project"} |-> "none"]
    /\ pipes = << >>
    /\ now = 0
    /\ runs = Bump([i \in QueueIds \cup DbIds |-> 0], peJob)
    /\ outcome = [i \in QueueIds \cup DbIds |-> NoValue]
    /\ IF peCaller = "queue"
       THEN /\ jobs = (1 :> NewJob("queued", 0))
            /\ isProcessing = TRUE
            /\ pipelineSet = TRUE
            /\ loops = (1 :> [pc |-> "awaitJob", queuedJobs |-> <<1>>])
            /\ nextId = 1
            /\ dbJobs = << >>
       ELSE /\ jobs = << >>
            /\ isProcessing = FALSE
            /\ pipelineSet = FALSE
            /\ loops = << >>
            /\ nextId = 0
            /\ dbJobs = (peJob :> [status |-> "processing", progress |-> 0,
                                   result |-> NoResult, error |-> NoValue])

NextPipe ==
    \/ ProcessEvaluation
    \/ PeCheckpoint20
    \/ EvaluateEnter
    \/ EvaluateNextContext
    \/ EvaluateCallLLM
    \/ StageFails
    \/ StageReturns
    \/ PeCheckpoint60
    \/ GenerateFinalSummary
    \/ PeComplete
    \/ PeReturn
    \/ PeRethrow
    \/ GetCollectionResolves
    \/ QueryResolves
    \/ GetRefCollectionResolves
    \/ RefQueryResolves
    \/ ContextCallRejects
    \/ GenerateReturns
    \/ GenerateThrows
    \/ TimerFires

SpecPipe == InitPipe /\ [][NextPipe]_vars

\* ------------------------------------------------ validation and scoring

\* What the response may hold as the score of a criterion: nothing, a
\* text that stands for no number, or a whole number.
RawNumbers == {0 - 2, 0, 2, 4, 9}
RawScores ==
    {[kind |-> "absent", value |-> 0], [kind |-> "text", value |-> 0]}
        \cup {[kind |-> "number", value |-> n] : n \in RawNumbers}
ParsedObjects(cs) ==
    {[c \in cs |-> [score |-> f[c], details |-> ""]] : f \in [cs -> RawScores]}

\* The evaluations that the validation can return, and the weighted scores
\* that calculateWeightedScore returns for them.
ValidatedEvaluations(cs) ==
    {[c \in cs |-> [score |-> f[c], details |-> "No details provided"]] :
        f \in [cs -> {ValidatedScore(raw) : raw \in RawScores}]}
WeightedScores(cs, weights) ==
    {calculateWeightedScore(e, weights) : e \in ValidatedEvaluations(cs)}

StageWeights(s) == IF s = "cv" THEN cvWeights ELSE projectWeights
StageScore(s) == IF s = "cv" THEN "cvScore" ELSE "projectScore"
StageEvaluation(s) == IF s = "cv" THEN cvEvaluation ELSE projectEvaluation

\* evaluateCV or evaluateProjectReport has parsed the response (lines 228,
\* 344) and returns the validated evaluation.
ValidateEvaluation ==
    /\ scorePc = "parsed"
    /\ scorePc' = "validated"
    /\ IF stage = "cv"
       THEN /\ cvEvaluation' = ValidatedEvaluation(parsedEvaluation, CvCriteria)
            /\ UNCHANGED projectEvaluation
       ELSE /\ projectEvaluation' = ValidatedEvaluation(parsedEvaluation, ProjectCriteria)
            /\ UNCHANGED cvEvaluation
    /\ UNCHANGED <<parsedEvaluation, weightedScores, finalScore>>
    /\ UNCHANGED <<pePc, peJob, peCaller, stage, ctxNo, peError, effects, parsed>>
    /\ UNCHANGED <<qvars, lvars, cvars, avars, rvars, dvars>>

\* Lines 480 and 481: calculateWeightedScore is applied to the evaluation.
WeighEvaluation ==
    /\ scorePc = "validated"
    /\ scorePc' = "weighted"
    /\ weightedScores' = [weightedScores EXCEPT ![StageScore(stage)] =
                             calculateWeightedScore(StageEvaluation(stage), StageWeights(stage))]
    /\ UNCHANGED <<parsedEvaluation, finalScore>>
    /\ UNCHANGED <<qvars, lvars, cvars, pvars, avars, rvars, dvars>>

\* Lines 482 and 493-497: the overall score and the three rounded scores of
\* the result.
RoundScores ==
    /\ scorePc = "scored"
    /\ scorePc' = "rounded"
    /\ finalScore' = FinalScore(weightedScores.cvScore, weightedScores.projectScore)
    /\ UNCHANGED <<parsedEvaluation, weightedScores>>
    /\ UNCHANGED <<qvars, lvars, cvars, pvars, avars, rvars, dvars>>

\* Either the response of one stage has just been parsed, to any object
\* with the stage's criteria, or both weighted scores have just been
\* computed, to any values that calculateWeightedScore returns.
InitScore ==
    /\ QueueInit
    /\ LLMIdle
    /\ CtxIdle
    /\ pePc = "idle"
    /\ peJob = 0
    /\ peCaller = "none"
    /\ ctxNo = 0
    /\ cvEvaluation = EmptyEvaluation
    /\ projectEvaluation = EmptyEvaluation
    /\ peError = NoValue
    /\ effects = << >>
    /\ parsed = [s \in {"cv", "project"} |-> "none"]
    /\ finalScore = [cvScore |-> 0, projectScore |-> 0, overallScore |-> 0]
    /\ ListIdle
    /\ LimiterIdle
    /\ RemovalIdle
    /\ \/ /\ scorePc = "parsed"
          /\ stage \in {"cv", "project"}
          /\ parsedEvaluation \in ParsedObjects(Criteria(stage))
          /\ weightedScores = [cvScore |-> Zero, projectScore |-> Zero]
       \/ /\ scorePc = "scored"
          /\ stage = "none"
          /\ parsedEvaluation = << >>
          /\ weightedScores \in [cvScore : WeightedScores(CvCriteria, cvWeights),
                                 projectScore : WeightedScores(ProjectCriteria, projectWeights)]

NextScore ==
    \/ ValidateEvaluation
    \/ WeighEvaluation
    \/ RoundScores

SpecScore == InitScore /\ [][NextScore]_vars

\* ------------------------------------------------------------ job lists

Statuses == {"queued", "processing", "completed", "failed"}

\* A caller asks for all jobs (server.ts:490, 821) or for the jobs of one
\* status; the call has no await before its return.
ListJobs ==
    /\ \/ listed' = [status |-> "all", jobs |-> getAllJobs(jobs)]
       \/ \E status \in Statuses :
             listed' = [status |-> status, jobs |-> getJobsByStatus(jobs, status)]
    /\ UNCHANGED <<qvars, lvars, cvars, pvars, svars, rvars, dvars>>

\* The JobQueue with up to MaxAppJobs submissions, and the callers of its
\* lists.
NextList ==
    \/ SetEvaluationPipeline
    \/ nextId < MaxAppJobs /\ AddJob
    \/ \E l \in QueueIds : LoopExit(l)
    \/ \E l \in QueueIds : LoopAdmit(l)
    \/ \E l \in QueueIds : LoopAdmitNoPipeline(l)
    \/ \E l \in QueueIds : LoopAfterUpdate(l)
    \/ \E c \in QueueIds : PipeProcessing(c)
    \/ \E c \in QueueIds : PipeCompleted(c)
    \/ \E c \in QueueIds : PipeFailed(c)
    \/ ListJobs

SpecList == Init /\ [][NextList]_vars

\* --------------------------------------------------------- rate limiting

\* The two instances (auth.ts:223-224); times are in minutes.
Limiters == {"evaluation", "general"}
windowMs(limiter) == IF limiter = "evaluation" THEN 60 ELSE 1
maxRequests(limiter) == IF limiter = "evaluation" THEN 3 ELSE 60

\* Request paths, as their leading slash and the rest.
EvaluatePath == <<"/", "evaluate">>
OtherPaths == {<<"/", "health">>, <<"/", "status">>}
skipPaths(limiter) ==
    IF limiter = "evaluation"
    THEN {<<"/", "health">>, <<"/", "auth/sign-up">>, <<"/", "auth/sign-in">>,
          <<"/", "auth/sign-out">>, <<"/", "auth/me">>, <<"/", "upload">>, <<"/", "jobs">>,
          <<"/", "api-spec">>, <<"/", "swagger">>, <<"/">>}
    ELSE {<<"/", "health">>, <<"/", "api-spec">>, <<"/", "swagger">>}
startsWith(path, prefix) ==
    Len(prefix) <= Len(path) /\ SubSeq(path, 1, Len(prefix)) = prefix

\* What getClientKey returns: the first forwarded address, or 'unknown'.
ClientKeys == {"203.0.113.7", "unknown"}

\* The result of a middleware that did not call isAllowed.
NotAsked == [called |-> FALSE, allowed |-> TRUE, remaining |-> 0, resetTime |-> 0]

\* isAllowed with the full window tested by > in place of >=.
isAllowedOneMore(limiter, entries, key, t) ==
    IF key \notin DOMAIN entries \/ t > entries[key].resetTime
    THEN [store |-> (key :> [count |-> 1, resetTime |-> t + windowMs(limiter)]) @@ entries,
          result |-> [called |-> TRUE, allowed |-> TRUE,
                      remaining |-> maxRequests(limiter) - 1,
                      resetTime |-> t + windowMs(limiter)]]
    ELSE IF entries[key].count > maxRequests(limiter)
    THEN [store |-> entries,
          result |-> [called |-> TRUE, allowed |-> FALSE, remaining |-> 0,
                      resetTime |-> entries[key].resetTime]]
    ELSE [store |-> [entries EXCEPT ![key].count = @ + 1],
          result |-> [called |-> TRUE, allowed |-> TRUE,
                      remaining |-> maxRequests(limiter) - (entries[key].count + 1),
                      resetTime |-> entries[key].resetTime]]

\* SimpleRateLimiter.isAllowed(key) at the time t on the entries of the
\* limiter: the entries afterwards and the returned object.
isAllowed(limiter, entries, key, t) ==
    IF key \notin DOMAIN entries \/ t > entries[key].resetTime
    THEN [store |-> (key :> [count |-> 1, resetTime |-> t + windowMs(limiter)]) @@ entries,
          result |-> [called |-> TRUE, allowed |-> TRUE,
                      remaining |-> maxRequests(limiter) - 1,
                      resetTime |-> t + windowMs(limiter)]]
    ELSE IF entries[key].count >= maxRequests(limiter)
    THEN [store |-> entries,
          result |-> [called |-> TRUE, allowed |-> FALSE, remaining |-> 0,
                      resetTime |-> entries[key].resetTime]]
    ELSE [store |-> [entries EXCEPT ![key].count = @ + 1],
          result |-> [called |-> TRUE, allowed |-> TRUE,
                      remaining |-> maxRequests(limiter) - (entries[key].count + 1),
                      resetTime |-> entries[key].resetTime]]

\* The middleware createRateLimiter(limiter, options) builds, for a request
\* with the path and the client key: next() for a path that starts with one
\* of the skipPaths, else isAllowed and 429 when it is not allowed.
createRateLimiter(limiter, entries, path, key, t) ==
    IF \E skipPath \in skipPaths(limiter) : startsWith(path, skipPath)
    THEN [store |-> entries, result |-> NotAsked]
    ELSE isAllowed(limiter, entries, key, t)

\* One request to the router of start.ts: the general limiter of
\* router.use('*'), then for POST /evaluate the evaluation limiter and the
\* handler, which starts the evaluation (the request has passed requireAuth
\* and the check of its fields).
Request(key, path) ==
    LET general == createRateLimiter("general", store["general"], path, key, clock)
        evaluation ==
            IF path = EvaluatePath /\ general.result.allowed
            THEN createRateLimiter("evaluation", store["evaluation"], path, key, clock)
            ELSE [store |-> store["evaluation"], result |-> NotAsked]
        status == IF general.result.allowed /\ evaluation.result.allowed THEN 200 ELSE 429
    IN /\ store' = [general |-> general.store, evaluation |-> evaluation.store]
       /\ reply' = [key |-> key, path |-> path, status |-> status,
                    general |-> general.result, evaluation |-> evaluation.result]
       /\ requests' = IF path = EvaluatePath
                      THEN Append(requests, [key |-> key, at |-> clock, status |-> status])
                      ELSE requests
       /\ UNCHANGED clock
       /\ UNCHANGED <<qvars, lvars, cvars, pvars, svars, avars, dvars>>

\* The callback of the limiter's setInterval deletes the entries whose
\* window is over.
CleanupExpired(limiter) ==
    /\ store' = [store EXCEPT ![limiter] =
                    [key \in {k \in DOMAIN @ : ~(clock > @[k].resetTime)} |-> @[key]]]
    /\ UNCHANGED <<clock, reply, requests>>
    /\ UNCHANGED <<qvars, lvars, cvars, pvars, svars, avars, dvars>>

\* Time passes.
Advance(minutes, limit) ==
    /\ clock + minutes <= limit
    /\ clock' = clock + minutes
    /\ UNCHANGED <<store, reply, requests>>
    /\ UNCHANGED <<qvars, lvars, cvars, pvars, svars, avars, dvars>>

\* The limiters under requests that are not evaluations, minute by minute.
NextLimiter ==
    \/ Advance(1, MaxMinutes)
    \/ \E key \in ClientKeys, path \in OtherPaths : Request(key, path)
    \/ \E limiter \in Limiters : CleanupExpired(limiter)

SpecLimiter == Init /\ [][NextLimiter]_vars

\* Up to MaxEvaluations requests to POST /evaluate, half an hour at a time.
NextGate ==
    \/ Advance(30, 30 * MaxHalfHours)
    \/ \E key \in ClientKeys : Len(requests) < MaxEvaluations /\ Request(key, EvaluatePath)
    \/ \E limiter \in Limiters : CleanupExpired(limiter)

SpecGate == Init /\ [][NextGate]_vars

\* ------------------------------------------------------------ job removal

\* deleteJob(jobId): Map.delete, which tells whether the key was there.
deleteJob(js, jobId) ==
    [jobs |-> Remove(js, jobId), deleted |-> jobId \in DOMAIN js]

\* cleanupOldJobs whose test also removes a job created maxAgeHours ago to
\* the millisecond.
cleanupOldJobsInclusive(js, maxAgeHours, t) ==
    LET cutoffTime == t - maxAgeHours * HourMs
        old == {id \in DOMAIN js : js[id].createdAt <= cutoffTime}
    IN [jobs |-> [id \in DOMAIN js \ old |-> js[id]], deletedCount |-> Cardinality(old)]

\* cleanupOldJobs(maxAgeHours), called at time t: deletes every job with
\* createdAt < cutoffTime and counts the deletions.
cleanupOldJobs(js, maxAgeHours, t) ==
    LET cutoffTime == t - maxAgeHours * HourMs
        old == {id \in DOMAIN js : js[id].createdAt < cutoffTime}
    IN [jobs |-> [id \in DOMAIN js \ old |-> js[id]], deletedCount |-> Cardinality(old)]

\* Neither method has an await: each runs in one synchronous segment, at
\* any suspension point of the loop and of the pipeline.
DeleteJob(jobId) ==
    /\ jobs' = deleteJob(jobs, jobId).jobs
    /\ removed' = [op |-> "deleteJob", arg |-> jobId,
                   deleted |-> deleteJob(jobs, jobId).deleted, deletedCount |-> 0]
    /\ UNCHANGED <<isProcessing, pipelineSet, loops, pipes, dbJobs, now, nextId, runs, outcome>>
    /\ UNCHANGED <<lvars, cvars, pvars, svars, avars, rvars>>

CleanupOldJobs(maxAgeHours) ==
    /\ jobs' = cleanupOldJobs(jobs, maxAgeHours, now).jobs
    /\ removed' = [op |-> "cleanupOldJobs", arg |-> maxAgeHours, deleted |-> FALSE,
                   deletedCount |-> cleanupOldJobs(jobs, maxAgeHours, now).deletedCount]
    /\ UNCHANGED <<isProcessing, pipelineSet, loops, pipes, dbJobs, now, nextId, runs, outcome>>
    /\ UNCHANGED <<lvars, cvars, pvars, svars, avars, rvars>>

\* An hour passes.
Elapse ==
    /\ now + HourMs <= MaxHours * HourMs + MaxClock
    /\ now' = now + HourMs
    /\ UNCHANGED <<jobs, isProcessing, pipelineSet, loops, pipes, dbJobs, nextId, runs, outcome>>
    /\ UNCHANGED <<lvars, cvars, pvars, svars, avars, rvars, dvars>>

\* The caller of deleteJob or cleanupOldJobs resumes with the value returned.
RemovalResolves ==
    /\ removed.op # "none"
    /\ removed' = [op |-> "none", arg |-> 0, deleted |-> FALSE, deletedCount |-> 0]
    /\ UNCHANGED qvars
    /\ UNCHANGED <<lvars, cvars, pvars, svars, avars, rvars>>

\* The value a removal returned is looked at before the next step of the
\* queue; nothing in the queue depends on it.
NextStore ==
    \/ RemovalIdle /\ SetEvaluationPipeline
    \/ RemovalIdle /\ nextId < MaxAppJobs /\ AddJob
    \/ \E l \in QueueIds : RemovalIdle /\ LoopExit(l)
    \/ \E l \in QueueIds : RemovalIdle /\ LoopAdmit(l)
    \/ \E l \in QueueIds : RemovalIdle /\ LoopAdmitNoPipeline(l)
    \/ \E l \in QueueIds : RemovalIdle /\ LoopAfterUpdate(l)
    \/ \E c \in QueueIds : RemovalIdle /\ PipeProcessing(c)
    \/ \E c \in QueueIds : RemovalIdle /\ PipeCompleted(c)
    \/ \E c \in QueueIds : RemovalIdle /\ PipeFailed(c)
    \/ RemovalIdle /\ Elapse
    \/ \E jobId \in 1..MaxAppJobs : RemovalIdle /\ DeleteJob(jobId)
    \/ \E maxAgeHours \in 0..MaxHours : RemovalIdle /\ CleanupOldJobs(maxAgeHours)
    \/ RemovalResolves

SpecStore == Init /\ [][NextStore]_vars

\* Steps of the JobQueue and of the pipeline executions it starts.
Next ==
    \/ SetEvaluationPipeline
    \/ AddJob
    \/ \E l \in QueueIds : LoopExit(l)
    \/ \E l \in QueueIds : LoopAdmit(l)
    \/ \E l \in QueueIds : LoopAdmitNoPipeline(l)
    \/ \E l \in QueueIds : LoopAfterUpdate(l)
    \/ \E c \in QueueIds : PipeProcessing(c)
    \/ \E c \in QueueIds : PipeCompleted(c)
    \/ \E c \in QueueIds : PipeFailed(c)

Spec == Init /\ [][Next]_vars

\* The event loop resumes every continuation that is ready, and a pipeline
\* execution that has started runs to its end; submissions are up to the
\* callers.
Fairness ==
    /\ \A l \in QueueIds : WF_vars(LoopExit(l))
    /\ \A l \in QueueIds : WF_vars(LoopAdmit(l))
    /\ \A l \in QueueIds : WF_vars(LoopAdmitNoPipeline(l))
    /\ \A l \in QueueIds : WF_vars(LoopAfterUpdate(l))
    /\ \A c \in QueueIds : WF_vars(PipeProcessing(c))
    /\ \A c \in QueueIds : WF_vars(PipeCompleted(c) \/ PipeFailed(c))

FairSpec == Init /\ [][Next]_vars /\ Fairness

\* The JobQueue together with the /evaluate route of start.ts, for up to
\* MaxAppJobs submissions to the queue and MaxDb requests to the route.
NextApp ==
    \/ SetEvaluationPipeline
    \/ nextId < MaxAppJobs /\ AddJob
    \/ \E l \in QueueIds : LoopExit(l)
    \/ \E l \in QueueIds : LoopAdmit(l)
    \/ \E l \in QueueIds : LoopAdmitNoPipeline(l)
    \/ \E l \in QueueIds : LoopAfterUpdate(l)
    \/ \E c \in QueueIds \cup DbIds : PipeProcessing(c)
    \/ \E c \in QueueIds \cup DbIds : PipeCompleted(c)
    \/ \E c \in QueueIds \cup DbIds : PipeFailed(c)
    \/ RouteEvaluate
    \/ \E c \in DbIds : RouteStart(c)
    \/ \E c \in DbIds : RouteCatch(c)

SpecApp == Init /\ [][NextApp]_vars


\* ------------------------------------------------------------ properties

Range(q) == {q[i] : i \in 1..Len(q)}

\* Pipeline executions started by the queue's processing loop.
QueueRuns == {c \in DOMAIN pipes : pipes[c].job \in QueueIds}

\* Jobs the queue shows as queued that no pipeline execution has touched.
Waiting == {j \in DOMAIN jobs : jobs[j].status = "queued" /\ runs[j] = 0}

\* C1: under any interleaving of addJob with the processing loop, at most 3
\* pipeline executions started by the queue are in progress at a time.
C1_ConcurrencyBound == Cardinality(QueueRuns) <= 3

\* A job is running while three later submissions wait in the queue.
C1_Witness == Cardinality(QueueRuns) = 1 /\ Cardinality(Waiting) >= 3

AllowedTransitions ==
    {<<"queued", "processing">>, <<"processing", "completed">>, <<"processing", "failed">>}

StatusStep(old, new) == old = new \/ <<old, new>> \in AllowedTransitions

\* C2: the status of a job record changes only along queued -> processing
\* -> completed or queued -> processing -> failed, in the queue and in the
\* job table alike; a terminal status is never left.
C2_TransitionsFollowStateMachine ==
    [][/\ \A j \in DOMAIN jobs \cap DOMAIN jobs' :
             StatusStep(jobs[j].status, jobs'[j].status)
       /\ \A d \in DOMAIN dbJobs \cap DOMAIN dbJobs' :
             StatusStep(dbJobs[d].status, dbJobs'[d].status)]_vars

\* C3: processEvaluation is invoked at most once for every submitted job.
C3_AtMostOneExecutionPerJob == \A j \in QueueIds : runs[j] <= 1

\* C4: every submitted job eventually leaves queued or is handed to the
\* pipeline, provided every pipeline execution that starts also ends.
C4_EveryJobEventuallyAdmitted ==
    \A j \in QueueIds :
        (j \in DOMAIN jobs) ~> (j \in DOMAIN jobs /\ (runs[j] > 0 \/ jobs[j].status # "queued"))

\* C5: admission is FIFO: when the loop admits a job, none of the queued
\* jobs it listed that still wait for their first admission was submitted
\* earlier than the admitted one.
C5_AdmissionIsFifo ==
    [][\A l \in DOMAIN loops :
          (l \notin DOMAIN pipes /\ l \in DOMAIN pipes')
              => \A k \in Range(loops[l].queuedJobs) :
                     runs[k] = 0 => pipes'[l].job <= k]_vars

C7_SubmitReturnsQueued ==
    [][nextId' # nextId =>
          /\ nextId' \notin DOMAIN jobs
          /\ DOMAIN jobs' = DOMAIN jobs \cup {nextId'}
          /\ jobs'[nextId'].status = "queued"
          /\ runs'[nextId'] = 0
          /\ pipes' = pipes
          /\ dbJobs' = dbJobs]_vars

\* addJob has just returned a job: the loop it started is suspended with the
\* job in its list and no pipeline execution exists.
C7_Witness ==
    /\ nextId = 1
    /\ jobs[1].status = "queued"
    /\ runs[1] = 0
    /\ 1 \in DOMAIN loops /\ loops[1].queuedJobs = <<1>>
    /\ pipes = << >>

\* C8: once the pipeline execution of a job has ended, getJob returns the job
\* as completed with its result, or as failed with the error message.
C8_GetJobReportsOutcome ==
    \A j \in DOMAIN jobs :
        /\ outcome[j] = "ok" =>
              getJob(jobs, j).status = "completed" /\ getJob(jobs, j).result # NoValue
        /\ outcome[j] \notin {"ok", NoValue} =>
              getJob(jobs, j).status = "failed" /\ getJob(jobs, j).error = outcome[j]

\* C9: when every call ends in a transient fault, callLLM makes exactly
\* maxRetries calls and returns a failure whose error is the message of the
\* last failed attempt.
C9_ExhaustionAfterMaxAttempts ==
    (llmPc = "done" /\ onlyTransient) =>
        /\ calls = maxRetries
        /\ llmResult.success = FALSE
        /\ maxRetries >= 1 => llmResult.error = <<last.message>>

\* Three attempts failed and two timers were waited for; the last attempt
\* returned an empty response.
C9_Witness ==
    /\ llmPc = "done" /\ onlyTransient
    /\ maxRetries = 3 /\ calls = 3 /\ waits = 2
    /\ last = EmptyResponse
    /\ llmResult.error = <<"Empty response from LLM">>

IsClientFault(o) == o.kind = "ApiError" /\ o.status \in {400, 403}

\* C10: an attempt that fails with a bad-request or forbidden error ends
\* callLLM at once with a failure: no timer is set and no call follows, so
\* the calls made are those up to the failed attempt (1 when it is the
\* first).
C10_ClientFaultEndsInvocation ==
    IsClientFault(last) =>
        /\ llmPc = "done"
        /\ llmResult.success = FALSE
        /\ llmResult.error = <<"API Error: ", last.message>>
        /\ calls = attempt
        /\ waits = attempt - 1

\* A forbidden error on the first call of an invocation allowed 3 attempts.
C10_Witness ==
    /\ IsClientFault(last) /\ last.status = 403
    /\ maxRetries = 3 /\ calls = 1 /\ llmPc = "done"
\* C11: the timer set after the k-th failed attempt is for at least 2^k
\* seconds and less than one second more; a timer is set only after a
\* retryable failure with attempts left, and every timer waited for is
\* followed by a call, so none follows the final attempt, a bad-request or
\* forbidden error, or a success.
C11_BackoffWithinRange ==
    /\ llmPc = "setTimeout" =>
          /\ attempt >= 1 /\ attempt < maxRetries
          /\ delay >= 2 ^ attempt * 1000
          /\ delay < 2 ^ attempt * 1000 + 1000
          /\ last.kind \in {"Error", "ApiError"}
          /\ ~(last.kind = "ApiError" /\ last.status \in {400, 403})
    /\ waits = IF calls = 0 THEN 0 ELSE calls - 1

\* The timer after the second failed attempt, with the greatest jitter.
C11_Witness == llmPc = "setTimeout" /\ attempt = 2 /\ calls = 2 /\ delay = 4999

\* C12: a response without text or with blanks only is a failed attempt that
\* is retried while attempts remain and is never returned as a success;
\* callLLM succeeds at the first response with a non-blank text, returns
\* that text trimmed, and makes no call after it.
C12_BlankResponseIsRetried ==
    /\ (llmPc = "done" /\ llmResult.success) =>
          /\ last.kind = "result" /\ last.defined
          /\ \E i \in 1..Len(last.text) : last.text[i] # " "
          /\ llmResult.response # << >>
          /\ llmResult.response[1] # " "
          /\ llmResult.response[Len(llmResult.response)] # " "
          /\ \E i \in 1..Len(last.text) :
                llmResult.response = SubSeq(last.text, i, i + Len(llmResult.response) - 1)
    /\ last.kind = "result" =>
          llmPc = "done" /\ llmResult.success /\ calls = attempt
    /\ last = EmptyResponse =>
          /\ blanks >= 1
          /\ llmPc = "done" => ~llmResult.success /\ attempt = maxRetries
          /\ llmPc = "setTimeout" => attempt < maxRetries
          /\ llmPc \in {"done", "setTimeout", "generateContent"}
    /\ blanks <= calls

\* Two blank responses were retried and the third attempt returned a text
\* with a blank before it, which is returned trimmed.
C12_Witness ==
    /\ llmPc = "done" /\ llmResult.success
    /\ blanks = 2 /\ calls = 3 /\ waits = 2
    /\ last.text = <<" ", "x">> /\ llmResult.response = <<"x">>
\* C13: a generateContent call that is pending is eventually over for
\* callLLM, whether or not the service answers, so that callLLM returns.
C13_CallLLMTerminates == (llmPc = "generateContent") ~> (llmPc = "done")
\* The four document types that have a placeholder of their own.
PlaceholderTypes == {"cv", "project_report", "job_description", "scoring_rubric"}

\* C14: when a call to the vector database rejects, retrieveRelevantContext
\* returns at once, with a placeholder that depends on documentType alone
\* and differs between cv, project_report, job_description and
\* scoring_rubric; no state has an error travel on to the caller.
C14_RetrievalFallsBackToPlaceholder ==
    /\ ctxThrew =>
          /\ ctxPc = "returned"
          /\ ctxReturn # << >>
          /\ documentType = "cv" => ctxReturn = <<"CV content available for analysis">>
          /\ documentType = "project_report" =>
                ctxReturn = <<"Project report content available for analysis">>
          /\ documentType \notin PlaceholderTypes =>
                ctxReturn = <<"Content available for evaluation">>
    /\ \A t1, t2 \in PlaceholderTypes :
          t1 # t2 => FallbackContext(t1) # FallbackContext(t2)
    /\ ctxPc \in {"idle", "getCollection", "query", "getRefCollection", "refQuery", "returned"}

\* The reference query for the scoring rubric rejected after the first query
\* had found nothing; the rubric placeholder was returned.
C14_Witness ==
    /\ ctxThrew /\ ctxPc = "returned"
    /\ documentType = "scoring_rubric" /\ Len(queries) = 2
    /\ ctxReturn = <<"EVALUATION CRITERIA: Technical Skills: 1-5 scale ...">>

\* The passages of a query result.
PassagesOf(r) == IF r.hasDocuments /\ Len(r.documents) >= 1 THEN r.documents[1] ELSE << >>

\* C15: the first query goes to the documents collection scoped by
\* documentId; when it yields at least one passage these are returned joined
\* by a blank line and no other query is sent; the reference collection is
\* queried, scoped by documentType, only after the first query yielded no
\* passage, and then its passages are returned.
C15_CandidateFirstThenReference ==
    /\ Len(queries) >= 1 =>
          /\ queries[1].collection = "documents"
          /\ queries[1].whereKey = "documentId" /\ queries[1].whereValue = documentId
    /\ Len(queries) >= 2 =>
          /\ Len(queries) = 2
          /\ PassagesOf(results) = << >>
          /\ queries[2].collection = "reference_documents"
          /\ queries[2].whereKey = "documentType" /\ queries[2].whereValue = documentType
    /\ (ctxPc = "returned" /\ ~ctxThrew) =>
          IF PassagesOf(results) # << >>
          THEN /\ Len(queries) = 1
               /\ Len(ctxReturn) = 2 * Len(PassagesOf(results)) - 1
               /\ \A i \in 1..Len(ctxReturn) :
                     ctxReturn[i] = IF i % 2 = 1 THEN PassagesOf(results)[(i + 1) \div 2]
                                    ELSE "\n\n"
          ELSE /\ Len(queries) = 2
               /\ ctxReturn = Join(PassagesOf(refResults), "\n\n")

\* The first query returned an empty list, the reference query two passages.
C15_Witness ==
    /\ ctxPc = "returned" /\ ~ctxThrew
    /\ results.hasDocuments /\ results.documents = << << >> >>
    /\ ctxReturn = <<"reference passage 1", "\n\n", "reference passage 2">>
\* The external effects of a pipeline execution that succeeds, in order.
ExpectedEffects ==
    <<[op |-> "write", status |-> "processing", progress |-> 10, result |-> "none"],
      [op |-> "write", status |-> "processing", progress |-> 20, result |-> "none"],
      [op |-> "retrieve", stage |-> "cv", documentType |-> "cv"],
      [op |-> "retrieve", stage |-> "cv", documentType |-> "job_description"],
      [op |-> "retrieve", stage |-> "cv", documentType |-> "scoring_rubric"],
      [op |-> "callLLM", stage |-> "cv"],
      [op |-> "write", status |-> "processing", progress |-> 50, result |-> "partial"],
      [op |-> "write", status |-> "processing", progress |-> 60, result |-> "none"],
      [op |-> "retrieve", stage |-> "project", documentType |-> "project_report"],
      [op |-> "retrieve", stage |-> "project", documentType |-> "case_study"],
      [op |-> "retrieve", stage |-> "project", documentType |-> "scoring_rubric"],
      [op |-> "callLLM", stage |-> "project"],
      [op |-> "write", status |-> "processing", progress |-> 80, result |-> "none"],
      [op |-> "callLLM", stage |-> "summary"],
      [op |-> "write", status |-> "completed", progress |-> 100, result |-> "final"]>>

\* The effects made before the write that records a failure, if there is one.
EffectsBeforeFailure ==
    IF effects # << >> /\ effects[Len(effects)].op = "write"
           /\ effects[Len(effects)].status = "failed"
    THEN SubSeq(effects, 1, Len(effects) - 1)
    ELSE effects

\* C16: the writes, retrievals and callLLM invocations of one pipeline
\* execution are made in the order write 10, write 20, the three CV
\* retrievals, the CV completion, write 50 with the partial result, write
\* 60, the three project retrievals, the project completion, write 80, the
\* summary completion, write completed 100 with the final result; a query or
\* a completion call is pending only inside the retrieval or the callLLM
\* invocation made last.
C16_EffectsInStageOrder ==
    /\ Len(EffectsBeforeFailure) <= Len(ExpectedEffects)
    /\ \A i \in 1..Len(EffectsBeforeFailure) : EffectsBeforeFailure[i] = ExpectedEffects[i]
    /\ llmPc \in {"generateContent", "setTimeout"} =>
          effects # << >> /\ effects[Len(effects)].op = "callLLM"
    /\ ctxPc \in {"getCollection", "query", "getRefCollection", "refQuery"} =>
          effects # << >> /\ effects[Len(effects)].op = "retrieve"
    /\ (pePc = "returned" /\ peError = NoValue) => effects = ExpectedEffects

\* An execution has returned after all fifteen effects.
C16_Witness == pePc = "returned" /\ effects = ExpectedEffects /\ peCaller = "route"

\* C17: a write that leaves the status of a row at processing never lowers
\* its progress.
C17_ProgressNeverDecreases ==
    [][\A d \in DOMAIN dbJobs \cap DOMAIN dbJobs' :
          (dbJobs[d].status = "processing" /\ dbJobs'[d].status = "processing")
              => dbJobs'[d].progress >= dbJobs[d].progress]_vars

\* The row of a job is at progress 80 after it passed 10, 20, 50 and 60.
C17_Witness ==
    /\ peJob \in DOMAIN dbJobs
    /\ dbJobs[peJob].status = "processing" /\ dbJobs[peJob].progress = 80
    /\ Len(effects) = 13

\* C18: a row in status processing at progress 50, 60 or 80 holds the
\* partial result: the CV evaluation, no project evaluation, scores 0.
C18_PartialResultStaysVisible ==
    \A d \in DOMAIN dbJobs :
        (dbJobs[d].status = "processing" /\ dbJobs[d].progress \in {50, 60, 80}) =>
            /\ dbJobs[d].result # NoResult
            /\ dbJobs[d].result.cvEvaluation = cvEvaluation
            /\ dbJobs[d].result.projectEvaluation = EmptyEvaluation
            /\ dbJobs[d].result.finalScore = [cvScore |-> 0, projectScore |-> 0, overallScore |-> 0]

\* C19: a row of the job table has a result only in status processing or
\* completed and an error only in status failed, and so has a job of the
\* queue.
C19_ResultAndErrorMatchStatus ==
    /\ \A d \in DOMAIN dbJobs :
          /\ dbJobs[d].result # NoResult => dbJobs[d].status \in {"processing", "completed"}
          /\ dbJobs[d].error # NoValue => dbJobs[d].status = "failed"
    /\ \A j \in DOMAIN jobs :
          /\ jobs[j].result # NoValue => jobs[j].status \in {"processing", "completed"}
          /\ jobs[j].error # NoValue => jobs[j].status = "failed"

\* The project stage failed after the partial result had been written: the
\* row is failed, with the error and without a result.
C19_Witness ==
    /\ peJob \in DOMAIN dbJobs
    /\ dbJobs[peJob].status = "failed"
    /\ dbJobs[peJob].error = "Project evaluation failed: API Error: Forbidden"
    /\ dbJobs[peJob].result = NoResult
    /\ \E i \in 1..Len(effects) : effects[i].op = "write" /\ effects[i].result = "partial"

\* C20: when the text returned for the CV prompt cannot be parsed, the CV
\* evaluation has score 3 and details 'Evaluation parsing failed' for every
\* criterion, no failure is recorded for the CV stage, the project stage
\* runs and validates its own response as usual, and an execution that
\* returns after both stages ends completed at progress 100 with that CV
\* evaluation in its result.
C20_MalformedOutputDoesNotFail ==
    parsed["cv"] = "failed" =>
        /\ \A c \in CvCriteria :
              cvEvaluation[c] = [score |-> 3, details |-> "Evaluation parsing failed"]
        /\ DOMAIN cvEvaluation = CvCriteria
        /\ Len(effects) >= 7 /\ effects[7] = ExpectedEffects[7]
        /\ peError # NoValue => stage = "project" /\ parsed["project"] = "none"
        /\ parsed["project"] = "ok" =>
              \A c \in ProjectCriteria : projectEvaluation[c].details # "Evaluation parsing failed"
        /\ (pePc = "returned" /\ parsed["project"] # "none") =>
              /\ peError = NoValue
              /\ peJob \in DOMAIN dbJobs =>
                    /\ dbJobs[peJob].status = "completed" /\ dbJobs[peJob].progress = 100
                    /\ dbJobs[peJob].result.cvEvaluation = cvEvaluation

\* The CV response could not be parsed, the project response could, and the
\* job is completed with the default CV evaluation and the project scores.
C20_Witness ==
    /\ pePc = "returned" /\ peCaller = "route"
    /\ parsed["cv"] = "failed" /\ parsed["project"] = "ok"
    /\ dbJobs[peJob].status = "completed"
    /\ dbJobs[peJob].result.cvEvaluation["culturalFit"].score = 3
    /\ dbJobs[peJob].result.projectEvaluation["correctness"].score = 4
    /\ dbJobs[peJob].result.finalScore = [cvScore |-> 300, projectScore |-> 400, overallScore |-> 350]
\* C21: when callLLM has returned a failure for the summary prompt, it did
\* so after at most 2 completion calls, and the next step of the execution
\* records no failure: it writes (completed, 100, result) with the fixed
\* summary string, both evaluations and the three scores.
C21_SummaryFailureDoesNotFail ==
    [][(pePc = "callLLM" /\ stage = "summary" /\ llmPc = "done" /\ ~llmResult.success) =>
          /\ calls <= 2
          /\ pePc' = "w100"
          /\ peError' = NoValue
          /\ effects' = Append(effects, [op |-> "write", status |-> "completed",
                                         progress |-> 100, result |-> "final"])
          /\ peJob \in DOMAIN dbJobs =>
                /\ dbJobs'[peJob].status = "completed"
                /\ dbJobs'[peJob].progress = 100
                /\ dbJobs'[peJob].error = NoValue
                /\ dbJobs'[peJob].result.overallSummary =
                       <<"Failed to generate summary due to technical issues.">>
                /\ dbJobs'[peJob].result.cvEvaluation = cvEvaluation
                /\ dbJobs'[peJob].result.projectEvaluation = projectEvaluation
                /\ DOMAIN dbJobs'[peJob].result.cvEvaluation = CvCriteria
                /\ DOMAIN dbJobs'[peJob].result.projectEvaluation = ProjectCriteria
                /\ DOMAIN dbJobs'[peJob].result.finalScore =
                       {"cvScore", "projectScore", "overallScore"}]_vars

\* The summary prompt failed and the job of the route
\* is completed with the fixed summary.
C21_Witness ==
    /\ pePc = "returned" /\ peCaller = "route"
    /\ dbJobs[peJob].status = "completed" /\ dbJobs[peJob].progress = 100
    /\ dbJobs[peJob].result.overallSummary =
           <<"Failed to generate summary due to technical issues.">>
    /\ dbJobs[peJob].result.finalScore.overallScore = 400

\* The stages named by the effects of the execution so far.
StagesRun == {effects[i].stage : i \in {k \in 1..Len(effects) : effects[k].op # "write"}}

\* C22: when callLLM returns a failure to the CV or the project stage, the
\* next step records the failure with a non-empty message by the write
\* (failed, 0); after it no retrieval and no completion call is made, no
\* later stage is entered, and the caller leaves the job failed with that
\* message.  A completion call of a stage that is answered by a client
\* fault (400 or 403) ends the invocation at once, so that an invocation
\* whose first call is answered so has made exactly 1 call.
C22_StageFailureFailsJob ==
    /\ [](peError # NoValue =>
            /\ peError # ""
            /\ pePc \in {"wFailed", "returned"}
            /\ llmPc = "idle" /\ ctxPc = "idle"
            /\ effects[Len(effects)] =
                   [op |-> "write", status |-> "failed", progress |-> 0, result |-> "none"]
            /\ stage \in {"cv", "project"}
            /\ "summary" \notin StagesRun
            /\ stage = "cv" => "project" \notin StagesRun
            /\ peJob \in DOMAIN dbJobs =>
                  /\ dbJobs[peJob].status = "failed"
                  /\ dbJobs[peJob].error = peError
            /\ (pePc = "returned" /\ peJob \in DOMAIN jobs) =>
                  /\ jobs[peJob].status = "failed"
                  /\ jobs[peJob].error = peError)
    /\ []((pePc = "callLLM" /\ llmPc = "generateContent" /\ waits = 0) => calls = 1)
    /\ [][(pePc = "callLLM" /\ stage \in {"cv", "project"}) =>
            /\ (llmPc = "done" /\ ~llmResult.success) =>
                  /\ pePc' = "wFailed"
                  /\ peError' \notin {NoValue, ""}
            /\ (llmPc = "generateContent" /\ last'.kind = "ApiError"
                    /\ last'.status \in {400, 403}) =>
                  /\ llmPc' = "done"
                  /\ ~llmResult'.success
                  /\ calls' = calls]_vars

\* The first completion call of the CV stage was answered 400: the job of
\* the queue is failed after one call and no project stage.
C22_Witness ==
    /\ pePc = "returned" /\ peCaller = "queue"
    /\ jobs[peJob].status = "failed"
    /\ jobs[peJob].error = "CV evaluation failed: API Error: Bad Request"
    /\ Len(effects) = 7
    /\ StagesRun = {"cv"}
\* The score that validation has stored for the criterion c of the stage.
StoredScore(c) == StageEvaluation(stage)[c].score

\* C23: the score stored for a criterion is the raw score coerced into
\* 1..5, a raw score below 1 (0 and the negative ones included) becoming 1
\* and one above 5 becoming 5, and it is 3 when the raw score is absent.
C23_ScoresAreClamped ==
    scorePc = "validated" =>
        \A c \in Criteria(stage) :
            LET raw == parsedEvaluation[c].score IN
            /\ raw.kind = "number" => StoredScore(c) = Max(1, Min(5, raw.value))
            /\ raw.kind = "absent" => StoredScore(c) = 3

\* C24: the three scores of the final result lie between 1 and 5, whatever
\* the model returned as the scores of the criteria.
C24_FinalScoresInRange ==
    scorePc = "rounded" =>
        \A name \in {"cvScore", "projectScore", "overallScore"} :
            finalScore[name] >= 100 /\ finalScore[name] <= 500
\* The sum of the whole numbers of a sequence.
RECURSIVE SumOf(_)
SumOf(seq) == IF seq = << >> THEN 0 ELSE Head(seq) + SumOf(Tail(seq))

\* C25: the weighted score of an evaluation is the sum of score * weight
\* over its criteria divided by the sum of the weights of the criteria that
\* the evaluation has, and 0 when that sum of weights is 0; when all scores
\* are numbers, its hundredths are the sum of score * (hundredths of the
\* weight) divided by the sum of the hundredths of the weights, times 100.
C25_WeightedScoreIsWeightedMean ==
    scorePc = "weighted" =>
        LET evaluation == StageEvaluation(stage)
            weights == StageWeights(stage)
            keys == Keys(evaluation)
            present == [i \in 1..Len(keys) |-> WeightOf(weights, keys[i])]
            products == [i \in 1..Len(keys) |->
                            ScoreTimesWeight(evaluation[keys[i]].score, present[i])]
            totalWeight == Reduce(Zero, present)
            result == weightedScores[StageScore(stage)]
            hundredths == [i \in 1..Len(keys) |-> RoundedToHundredths(present[i])]
        IN /\ result = IF Positive(totalWeight) THEN Divide(Reduce(Zero, products), totalWeight)
                       ELSE Zero
           /\ (\A c \in DOMAIN evaluation : evaluation[c].score # NaN) =>
                 RoundedToHundredths(result) * SumOf(hundredths) =
                     100 * SumOf([i \in 1..Len(keys) |-> evaluation[keys[i]].score * hundredths[i]])

\* The project scores 1, 2, 3, 4, 5 with the weights 0.3, 0.25, 0.2, 0.15
\* and 0.1 have the weighted score 2.5.
C25_Witness ==
    /\ scorePc = "weighted"
    /\ stage = "project"
    /\ projectEvaluation["correctness"].score = 1
    /\ projectEvaluation["codeQuality"].score = 2
    /\ projectEvaluation["resilience"].score = 3
    /\ projectEvaluation["documentation"].score = 4
    /\ projectEvaluation["creativity"].score = 5
    /\ RoundedToHundredths(weightedScores.projectScore) = 250
\* Every criterion of both evaluations has the score s.
UniformScores(s) ==
    /\ DOMAIN cvEvaluation = CvCriteria
    /\ DOMAIN projectEvaluation = ProjectCriteria
    /\ \A c \in CvCriteria : cvEvaluation[c].score = s
    /\ \A c \in ProjectCriteria : projectEvaluation[c].score = s

\* C26: when an execution has returned without a failure and every
\* criterion of both evaluations has the same score s, the last write was
\* (completed, 100, final result) and the row of the job is completed at
\* progress 100 with cvScore = projectScore = overallScore = s.
C26_UniformScoresEndToEnd ==
    \A s \in 1..5 :
        (pePc = "returned" /\ peError = NoValue /\ UniformScores(s)) =>
            /\ effects = ExpectedEffects
            /\ peJob \in DOMAIN dbJobs =>
                  /\ dbJobs[peJob].status = "completed"
                  /\ dbJobs[peJob].progress = 100
                  /\ dbJobs[peJob].result.finalScore =
                        [cvScore |-> 100 * s, projectScore |-> 100 * s, overallScore |-> 100 * s]

\* Both responses gave 4 for every criterion, the summary was generated, and
\* the row is completed at 100 with the three scores 4.00.
C26_Witness ==
    /\ pePc = "returned" /\ peCaller = "route"
    /\ UniformScores(4)
    /\ parsed = [cv |-> "ok", project |-> "ok"]
    /\ dbJobs[peJob].status = "completed" /\ dbJobs[peJob].progress = 100
    /\ dbJobs[peJob].result.overallSummary # SummaryFallback
    /\ dbJobs[peJob].result.finalScore = [cvScore |-> 400, projectScore |-> 400, overallScore |-> 400]
\* C27: the reported cvScore and projectScore are the two weighted scores
\* in whole hundredths, and the reported overallScore is their mean
\* (cvScore + projectScore) / 2 rounded to whole hundredths, a half going up.
C27_OverallIsRoundedMean ==
    (scorePc = "rounded" /\ ~weightedScores.cvScore.nan /\ ~weightedScores.projectScore.nan) =>
        /\ finalScore.cvScore = RoundedToHundredths(weightedScores.cvScore)
        /\ finalScore.projectScore = RoundedToHundredths(weightedScores.projectScore)
        /\ finalScore.overallScore = (finalScore.cvScore + finalScore.projectScore + 1) \div 2
\* The evaluation with every score multiplied by k.
Scaled(evaluation, k) ==
    [c \in DOMAIN evaluation |-> [evaluation[c] EXCEPT !.score = k * evaluation[c].score]]

\* The evaluation has a number from 1 to 5 as the score of every criterion.
ScoresInRange(evaluation) ==
    \A c \in DOMAIN evaluation : evaluation[c].score >= 1 /\ evaluation[c].score <= 5

\* C28: for an evaluation of whole scores and a whole number k that keeps
\* all scores within 1..5, the weighted score of the evaluation with every
\* score multiplied by k is k times the weighted score of the evaluation.
C28_WeightedScoreIsLinear ==
    (scorePc = "weighted" /\ ScoresInRange(StageEvaluation(stage))) =>
        \A k \in 1..5 :
            ScoresInRange(Scaled(StageEvaluation(stage), k)) =>
                calculateWeightedScore(Scaled(StageEvaluation(stage), k), StageWeights(stage))
                    = Times(k, weightedScores[StageScore(stage)])

\* The CV scores 1, 2, 1, 2 have the weighted score 1.4 and their doubles
\* 2, 4, 2, 4 the weighted score 2.8.
C28_Witness ==
    /\ scorePc = "weighted"
    /\ stage = "cv"
    /\ cvEvaluation["technicalSkillsMatch"].score = 1
    /\ cvEvaluation["experienceLevel"].score = 2
    /\ cvEvaluation["relevantAchievements"].score = 1
    /\ cvEvaluation["culturalFit"].score = 2
    /\ RoundedToHundredths(weightedScores.cvScore) = 140
    /\ RoundedToHundredths(calculateWeightedScore(Scaled(cvEvaluation, 2), cvWeights)) = 280
\* C29: no two pipeline executions in progress are for the same job id, and
\* a row of the job table is changed only by the one execution in progress
\* for its id (or by the catch block of the callback that ran it).
C29_OneExecutionPerJob ==
    /\ [](\A c1, c2 \in DOMAIN pipes : pipes[c1].job = pipes[c2].job => c1 = c2)
    /\ [][\A d \in DOMAIN dbJobs \cap DOMAIN dbJobs' :
              dbJobs'[d] # dbJobs[d] =>
                  /\ \E c \in DOMAIN pipes : pipes[c].job = d
                  /\ \A c \in DOMAIN pipes :
                        pipes[c].job = d => c \notin DOMAIN pipes' \/ pipes'[c] # pipes[c]]_vars

\* The queue runs a job for the second time while the execution that the
\* route started for another job is in progress.
C29_Witness ==
    /\ \E c \in DOMAIN pipes :
          pipes[c].job \in QueueIds /\ runs[pipes[c].job] = 2 /\ pipes[c].pc = "stages"
    /\ \E c \in DOMAIN pipes : pipes[c].job \in DbIds /\ pipes[c].pc = "stages"
\* C30: the list returned by getAllJobs, or by getJobsByStatus for a status,
\* holds every stored job that matches exactly once, no other job, the jobs
\* created later before those created earlier, and the call changes no job.
C30_ListIsCompleteAndOrdered ==
    [][listed' # listed =>
          LET list == listed'.jobs
              matching == {j \in DOMAIN jobs :
                              listed'.status = "all" \/ jobs[j].status = listed'.status}
          IN /\ jobs' = jobs
             /\ dbJobs' = dbJobs
             /\ Range(list) = matching
             /\ Len(list) = Cardinality(matching)
             /\ \A i, k \in 1..Len(list) :
                   i < k => jobs[list[i]].createdAt >= jobs[list[k]].createdAt]_vars

\* The list of all jobs was returned with two jobs: the later one, still
\* queued, before the earlier one, which has failed.
C30_Witness ==
    /\ listed.status = "all"
    /\ Len(listed.jobs) = 2
    /\ jobs[listed.jobs[1]].createdAt > jobs[listed.jobs[2]].createdAt
    /\ jobs[listed.jobs[1]].status = "queued"
    /\ jobs[listed.jobs[2]].status = "failed"

\* The requests of one client to POST /evaluate, oldest first, keep to the
\* limit: a request made after the end of the window opens a new window of
\* one hour, and once 3 requests of a window were admitted every further
\* request of the window is answered 429.
RECURSIVE KeepsToLimit(_, _, _)
KeepsToLimit(log, end, admitted) ==
    IF log = << >> THEN TRUE
    ELSE LET r == Head(log)
             count == IF r.status = 200 THEN 1 ELSE 0
         IN IF r.at > end THEN KeepsToLimit(Tail(log), r.at + 60, count)
            ELSE /\ admitted >= 3 => r.status = 429
                 /\ KeepsToLimit(Tail(log), end, admitted + count)

\* C31: of the requests that one client makes to POST /evaluate within one
\* window of an hour at most 3 are admitted; a further request of the window
\* is answered 429 and starts no evaluation.
C31_EvaluationRateLimit ==
    \A key \in ClientKeys :
        KeepsToLimit(SelectSeq(requests, LAMBDA r : r.key = key), 0 - 1, 0)
\* The call of isAllowed that a step makes on a limiter, if it makes one: a
\* step that makes a call leaves the call's outcome in reply; a step that
\* changes a store without dropping a key made a call, too.
Called(limiter) ==
    /\ reply'[limiter].called
    /\ \/ reply' # reply
       \/ store'[limiter] # store[limiter] /\ DOMAIN store[limiter] \subseteq DOMAIN store'[limiter]

\* The window of the key is over (or was never opened) when the call is made.
WindowOver(limiter, key) ==
    key \notin DOMAIN store[limiter] \/ clock > store[limiter][key].resetTime

\* What one call of isAllowed does to the store of its limiter.
CallKeepsWindow(limiter) ==
    LET key == reply'.key
        entries == store[limiter]
        after == store'[limiter]
    IN /\ \A other \in DOMAIN entries \ {key} :
              other \in DOMAIN after /\ after[other] = entries[other]
       /\ IF WindowOver(limiter, key)
          THEN /\ reply'[limiter].allowed
               /\ key \in DOMAIN after
               /\ after[key] = [count |-> 1, resetTime |-> clock + windowMs(limiter)]
          ELSE IF reply'[limiter].allowed
          THEN /\ after[key].resetTime = entries[key].resetTime
               /\ after[key].count = entries[key].count + 1
               /\ after[key].count <= maxRequests(limiter)
          ELSE after = entries

\* C35: the count of a key is the number of calls that returned allowed since
\* the call that opened its window (1 at the opening, one more with every
\* allowed call up to resetTime) and never exceeds maxRequests; a denied call
\* leaves count and resetTime as they were; the first call after resetTime
\* is allowed and opens a new window with count 1.
C35_AtMostMaxRequestsPerWindow ==
    /\ [](\A limiter \in Limiters : \A key \in DOMAIN store[limiter] :
              /\ store[limiter][key].count >= 1
              /\ store[limiter][key].count <= maxRequests(limiter))
    /\ [][\A limiter \in Limiters :
              /\ Called(limiter) => CallKeepsWindow(limiter)
              /\ ~Called(limiter) =>
                    \A key \in DOMAIN store[limiter] :
                        \/ key \in DOMAIN store'[limiter]
                              /\ store'[limiter][key] = store[limiter][key]
                        \/ key \notin DOMAIN store'[limiter]
                              /\ clock > store[limiter][key].resetTime]_vars

\* A call made at the very end of a full window was denied.
C35_Witness ==
    /\ reply.general.called /\ ~reply.general.allowed
    /\ reply.key \in DOMAIN store["general"]
    /\ store["general"][reply.key].count = maxRequests("general")
    /\ clock = store["general"][reply.key].resetTime
\* C32: whenever a job with status queued is stored, a loop is running or
\* has a continuation pending: the queue is never idle over a queued job.
C32_NoLostWakeup ==
    (\E id \in DOMAIN jobs : jobs[id].status = "queued")
        => isProcessing \/ DOMAIN loops # {}
\* C33: at most one processing loop exists at any moment, and isProcessing
\* is true exactly while one exists: a loop that ends, after whatever its
\* jobs did, leaves isProcessing false.
C33_OneLoopAndFlagFollowsIt ==
    /\ Cardinality(DOMAIN loops) <= 1
    /\ isProcessing <=> DOMAIN loops # {}

\* The loop has ended after an execution threw into processJob, while a
\* second job had been added during its run.
C33_Witness ==
    /\ ~isProcessing
    /\ DOMAIN loops = {}
    /\ Cardinality(DOMAIN jobs) >= 2
    /\ \E id \in DOMAIN jobs :
          /\ jobs[id].status = "failed"
          /\ jobs[id].error \in PipelineErrors
\* C34: the write that processEvaluation makes when an execution fails is
\* (failed, 0, no result, the error's message), and it replaces the whole
\* row: a failed row has progress 0, the message and no result, so the
\* partial result written at progress 50 cannot be read from it.
C34_FailureWriteClearsResult ==
    /\ [](\A d \in DOMAIN dbJobs :
              dbJobs[d].status = "failed" =>
                  /\ dbJobs[d].progress = 0
                  /\ dbJobs[d].result = NoResult
                  /\ dbJobs[d].error # NoValue)
    /\ [][(pePc # "wFailed" /\ pePc' = "wFailed") =>
              /\ peError' # NoValue /\ peError' # ""
              /\ effects' = Append(effects, [op |-> "write", status |-> "failed",
                                             progress |-> 0, result |-> "none"])
              /\ peJob \in DOMAIN dbJobs =>
                    dbJobs'[peJob] = [status |-> "failed", progress |-> 0,
                                      result |-> NoResult, error |-> peError']]_vars

\* The failure of the project stage has just been written to the row to
\* which the partial result had been written at progress 50.
C34_Witness ==
    /\ pePc = "wFailed"
    /\ peJob \in DOMAIN dbJobs
    /\ dbJobs[peJob] = [status |-> "failed", progress |-> 0, result |-> NoResult,
                        error |-> peError]
    /\ stage = "project"
    /\ \E i \in 1..Len(effects) :
          /\ effects[i].op = "write"
          /\ effects[i].progress = 50
          /\ effects[i].result = "partial"
\* The jobs of the map that were created more than h hours before now.
CreatedBefore(h) == {id \in DOMAIN jobs : jobs[id].createdAt + h * HourMs < now}

====
